---- MODULE Spec2Model ----
(***************************************************************************)
(* OpenScrape: the job service (src/api.ts, src/websocket.ts), the crawl   *)
(* orchestrator (src/scraper.ts) and the rate limiter (src/rateLimiter.ts).*)
(*                                                                         *)
(* Node runs every handler and every promise continuation to completion,   *)
(* so one action is one handler or one continuation between two awaits.    *)
(* The specifications share the variables:                                 *)
(*   Spec / FairSpec  the job service; scraper.scrape() is its environment *)
(*                    and settles with a result or an error;               *)
(*   ScrapeSpec       OpenScrape.scrape() behind the shared RateLimiter;   *)
(*                    the browser is its environment;                      *)
(*   LimiterSpec      RateLimiter.execute() with arbitrary units of work;  *)
(*   CadenceSpec      the same limiter with its clock and timers;          *)
(*   PaginationSpec   handlePagination, called by scrape or directly;      *)
(*   PoolSpec         one ProxyPool and the calls made on it;              *)
(*   ParseSpec        parseProxyString and the ProxyPool constructor;      *)
(*   ApiSpec          the job service with every kind of request body;     *)
(*   BatchSpec        scrapeBatch; scrape() is its environment;            *)
(*   LlmSpec          the LLM step of scrape; the endpoint is its          *)
(*                    environment;                                         *)
(*   ExtractSpec      DataExtractor.extract on bounded documents;          *)
(*   SchemaSpec       scrape's choice of the extraction schema;            *)
(*   BackoffSpec      RateLimiter.handleBackoff and its sleeps;            *)
(*   RegistrySpec     the job service with two sockets, any client         *)
(*                    message and the closing of the WebSocket server;     *)
(*   FairLimiterSpec, FairPaginationSpec: LimiterSpec and PaginationSpec   *)
(*                    with weak fairness of their continuations.           *)
(* Each specification holds the other parts' variables at their initial    *)
(* values.                                                                 *)
(***************************************************************************)
EXTENDS Integers, Sequences, FiniteSets, TLC

\* ---------------------------------------------------------------- bounds
MaxClients == 1

\* job ids are opaque strings (randomUUID); clients may name any id
JobIds == {"id1", "id2"}
Urls == {"u1"}

\* -------------------------------------------------------------- constants
Undefined == "undefined"
\* a ScrapedData value JSON.stringify accepts, and one it throws on
\* (JSON.stringify is partial: it throws a TypeError / RangeError on values
\* it cannot serialise; the job's result is part of every later message)
Data == "data"
Unserialisable == "unserialisable"
ScrapeError == "Failed to scrape"
StringifyError == "stringify failed"
Stamp == "iso-timestamp"

VARIABLES
  jobs,              \* api.ts:24     Map jobId -> CrawlJob
  awaiting,          \* api.ts:132    jobs whose processJob is suspended at 'await scraper.scrape'
  jobSubscriptions,  \* websocket.ts:10  jobId -> set of client sockets
  allClients,        \* websocket.ts:13  connected sockets
  readyState,        \* ws socket state of every client
  received,          \* history: per client and job id, the payloads client.send()
                     \* was called with, in order
  statusLog,         \* history: per job id, every value assigned to job.status, in order
  calls,             \* history: per job id, every broadcastJobEvent call, in order
  unhandled,         \* history: job ids whose processing path ended in an unhandled rejection
  responses,         \* history: per job id, the response to the POST /crawl that created it
  invalid,           \* history: the last POST /crawl that created no job, and its response
  options,           \* per job id, the options scraper.scrape was called with
  \* ---- the orchestrator (scraper.ts) and its limiter (rateLimiter.ts)
  browser,           \* scraper.ts:19   "null" or the browser a launch gave
  defaultProxyPool,  \* scraper.ts:23   the pool's configs (<<>>: no pool) and its index
  req,               \* per scrape() call: where it is suspended and its locals
  queue,             \* PQueue's waiting units, oldest first
  pendingCount,      \* PQueue: units started and not finished
  intervalCount,     \* PQueue: units started in the current interval
  contexts,          \* per call, the browser contexts it opened that are open
  attempts,          \* history: per call, its navigation attempts in order
  settled,           \* per call, how the promise scrape() returned settled
  \* ---- the limiter's clock (rateLimiter.ts)
  now,               \* Date.now(), in ms
  lastRequestTime,   \* rateLimiter.ts:10
  wakeAt,            \* per unit, when its cadence sleep ends (0: not sleeping)
  intervalEnd,       \* PQueue: when the running interval ends (0: no interval running)
  invoked,           \* history: the units invoked (line 38), each with its start time
  \* ---- pagination (pagination.ts, scraper.ts:125-154)
  page,              \* the url the Page object is at
  pag,               \* the traversal: where it is suspended and its locals
  \* ---- library calls
  call,              \* one call of a function: its name, argument and, once it returned, result
  batch              \* scraper.ts:231 one scrapeBatch call: its urls, position and results

\* the client sockets there are
Clients == DOMAIN readyState

apiVars == <<responses, invalid, options>>

jobVars == <<jobs, awaiting, jobSubscriptions, allClients, readyState, received,
             statusLog, calls, unhandled, apiVars>>

scrVars == <<browser, defaultProxyPool, req, queue, pendingCount, intervalCount,
             contexts, attempts, settled>>

clkVars == <<now, lastRequestTime, wakeAt, intervalEnd, invoked>>

pagVars == <<page, pag>>

libVars == <<call, batch>>

vars == <<jobVars, scrVars, clkVars, pagVars, libVars>>

\* ------------------------------------------------------------ websocket.ts

\* the message broadcastJobEvent builds (timestamps are abstracted to Stamp)
Message(event, jobId, job) ==
  [event |-> event, jobId |-> jobId,
   job |-> [id |-> job.id, url |-> job.url, status |-> job.status,
            result |-> job.result, error |-> job.error,
            createdAt |-> job.createdAt, completedAt |-> job.completedAt]]

\* JSON.stringify(message) returns a payload unless the message holds a
\* value it cannot serialise
CanStringify(message) == message.job.result # Unserialisable

\* every open client is sent the payload
Deliver_ToAllOpen(recv, message) ==
  [c \in Clients |->
     IF c \in allClients /\ readyState[c] = "OPEN"
     THEN [recv[c] EXCEPT ![message.jobId] = Append(@, message)]
     ELSE recv[c]]

\* subscribers.forEach(client => if OPEN then client.send(payload))
Deliver(recv, message) ==
  [c \in Clients |->
     IF c \in jobSubscriptions[message.jobId] /\ readyState[c] = "OPEN"
     THEN [recv[c] EXCEPT ![message.jobId] = Append(@, message)]
     ELSE recv[c]]

\* A "world" w threads the part of the state one handler run mutates:
\*   job    the CrawlJob object (shared with the jobs map)
\*   recv   the payloads sent so far
\*   log    the statuses assigned so far
\*   sent   the broadcastJobEvent calls made so far
\*   threw  whether the last step threw, and thrown: the error's message
broadcastJobEvent(w, event, jobId) ==
  LET message == Message(event, jobId, w.job)
  IN IF CanStringify(message)
     THEN [w EXCEPT !.recv = Deliver(w.recv, message),
                    !.sent = Append(@, [event |-> event, status |-> w.job.status, ok |-> TRUE]),
                    !.threw = FALSE]
     ELSE [w EXCEPT !.sent = Append(@, [event |-> event, status |-> w.job.status, ok |-> FALSE]),
                    !.threw = TRUE,
                    !.thrown = StringifyError]

\* ------------------------------------------------------------------ api.ts

World(job, jobId) ==
  [job |-> job, recv |-> received, log |-> statusLog[jobId], sent |-> calls[jobId],
   threw |-> FALSE, thrown |-> Undefined]

SetStatus(w, status) ==
  [w EXCEPT !.job.status = status, !.log = Append(@, status)]

\* the catch block with 'job.status = "failed"' left out
processJobCatch_KeepsStatus(w, jobId) ==
  LET w2 == [w EXCEPT !.job.error = w.thrown, !.job.completedAt = Stamp]
  IN broadcastJobEvent(w2, "job:failed", jobId)

\* processJob, lines 138-143: the catch block
processJobCatch(w, jobId) ==
  LET w1 == SetStatus(w, "failed")
      w2 == [w1 EXCEPT !.job.error = w.thrown, !.job.completedAt = Stamp]
  IN broadcastJobEvent(w2, "job:failed", jobId)

\* a processJob that does nothing before its await
processJobStart_Deferred(w, jobId) == w

\* processJob, lines 123-125: the part of the try block before the await
processJobStart(w, jobId) ==
  broadcastJobEvent(SetStatus(w, "processing"), "job:processing", jobId)

\* processJob, lines 132-137: the part of the try block after the await;
\* outcome is how scraper.scrape() settled
processJobFinish(w, jobId, outcome) ==
  IF outcome.ok
  THEN LET w1 == SetStatus(w, "completed")
           w2 == [w1 EXCEPT !.job.result = outcome.result, !.job.completedAt = Stamp]
       IN broadcastJobEvent(w2, "job:completed", jobId)
  ELSE [w EXCEPT !.threw = TRUE, !.thrown = outcome.error]

\* POST /crawl, lines 50-58: the .catch handler attached to processJob(...)
\* (jobs.get(jobId) is always defined here: jobs are never deleted)
postCrawlCatch(w, jobId) ==
  LET w1 == SetStatus(w, "failed")
      w2 == [w1 EXCEPT !.job.error = w.thrown, !.job.completedAt = Stamp]
  IN broadcastJobEvent(w2, "job:failed", jobId)

\* a try body followed by processJob's catch block and the .catch handler
Guarded(w, jobId) ==
  LET w1 == IF w.threw THEN processJobCatch(w, jobId) ELSE w
  IN IF w1.threw THEN postCrawlCatch(w1, jobId) ELSE w1

Commit(w, jobId) ==
  /\ jobs' = [j \in DOMAIN jobs \cup {jobId} |-> IF j = jobId THEN w.job ELSE jobs[j]]
  /\ received' = w.recv
  /\ statusLog' = [statusLog EXCEPT ![jobId] = w.log]
  /\ calls' = [calls EXCEPT ![jobId] = w.sent]

\* randomUUID(): an id no job has
FreshIds == JobIds \ DOMAIN jobs

\* req.body of POST /crawl: url is absent, a number or a string; options is
\* absent, names a proxy or has a url of its own (the options the model
\* follows)
NoOptions == [given |-> FALSE, list |-> <<>>, url |-> Undefined]
\* api.ts:127-130 { url, ...options }: a field of options replaces the one
\* written before the spread
ScrapeOptions(url, opts) ==
  [opts EXCEPT !.url = IF opts.url = Undefined THEN url ELSE opts.url]
UrlValue(type, value) == [type |-> type, value |-> value]
StringUrl(url) == UrlValue("string", url)
\* a test of the url's type alone
UrlRefused_TypeOnly(url) == url.type # "string"

\* api.ts:34 !url || typeof url !== 'string'
UrlRefused(url) == url.type # "string" \/ url.value = ""

\* res.status(..).json(..)
Response(status, jobId, jobStatus, url, error) ==
  [status |-> status, jobId |-> jobId, jobStatus |-> jobStatus, url |-> url,
   error |-> error]
NoResponse == Response(0, Undefined, Undefined, Undefined, Undefined)
NoBody == [url |-> UrlValue("undefined", Undefined), options |-> NoOptions]

\* POST /crawl (lines 30-64), including the synchronous part of processJob
\* up to its await
PostCrawl(jobId, body) ==
  IF UrlRefused(body.url)
  THEN \* line 35
       /\ invalid' = [body |-> body,
                      response |-> Response(400, Undefined, Undefined, Undefined,
                                            "URL is required")]
       /\ UNCHANGED <<jobs, awaiting, jobSubscriptions, allClients, readyState, received,
                      statusLog, calls, unhandled, responses, options>>
       /\ UNCHANGED <<scrVars, clkVars, pagVars, libVars>>
  ELSE
  /\ jobId \in FreshIds
  /\ LET url == body.url.value
         job == [id |-> jobId, url |-> url, status |-> "pending", result |-> Undefined,
                 error |-> Undefined, createdAt |-> Stamp, completedAt |-> Undefined]
         w0 == [World(job, jobId) EXCEPT !.log = Append(@, "pending")]
         w1 == broadcastJobEvent(w0, "job:created", jobId)
     IN IF w1.threw
        THEN \* line 61: next(error); processJob is never called
             /\ Commit(w1, jobId)
             /\ responses' = [responses EXCEPT ![jobId] =
                                Response(500, Undefined, Undefined, Undefined, w1.thrown)]
             /\ UNCHANGED <<awaiting, unhandled, options>>
        ELSE LET w2 == processJobStart(w1, jobId)
                 w3 == Guarded(w2, jobId)
             IN /\ Commit(w3, jobId)
                /\ awaiting' = IF w2.threw THEN awaiting ELSE awaiting \cup {jobId}
                /\ unhandled' = IF w3.threw THEN unhandled \cup {jobId} ELSE unhandled
                /\ options' = [options EXCEPT ![jobId] = ScrapeOptions(url, body.options)]
                \* line 60
                /\ responses' = [responses EXCEPT ![jobId] =
                                   Response(200, jobId, "pending", url, Undefined)]
  /\ invalid' = invalid
  /\ UNCHANGED <<jobSubscriptions, allClients, readyState>>
  /\ UNCHANGED <<scrVars, clkVars, pagVars, libVars>>

\* GET /status/:jobId (lines 69-86): what a status query is answered now
GetStatus(jobId) ==
  IF jobId \notin DOMAIN jobs
  THEN Response(404, Undefined, Undefined, Undefined, "Job not found")
  ELSE LET job == jobs[jobId]
       IN Response(200, job.id, job.status, job.url, job.error)

\* how scraper.scrape() can settle
ScrapeOutcomes ==
  {[ok |-> TRUE, result |-> r, error |-> Undefined] : r \in {Data, Unserialisable}}
    \cup {[ok |-> FALSE, result |-> Undefined, error |-> ScrapeError]}

\* the continuation of processJob once scraper.scrape() has settled
ScrapeSettles(jobId, outcome) ==
  /\ jobId \in awaiting
  /\ LET w1 == processJobFinish(World(jobs[jobId], jobId), jobId, outcome)
         w2 == Guarded(w1, jobId)
     IN /\ Commit(w2, jobId)
        /\ unhandled' = IF w2.threw THEN unhandled \cup {jobId} ELSE unhandled
  /\ awaiting' = awaiting \ {jobId}
  /\ UNCHANGED <<jobSubscriptions, allClients, readyState>>
  /\ UNCHANGED apiVars
  /\ UNCHANGED <<scrVars, clkVars, pagVars, libVars>>

\* ------------------------------------------------- websocket.ts, handlers

\* wss.on('connection')
Connect(c) ==
  /\ readyState[c] = "NEW"
  /\ readyState' = [readyState EXCEPT ![c] = "OPEN"]
  /\ allClients' = allClients \cup {c}
  /\ UNCHANGED <<jobs, awaiting, jobSubscriptions, received, statusLog, calls,
                 unhandled>>
  /\ UNCHANGED <<scrVars, clkVars, pagVars, libVars>>
  /\ UNCHANGED apiVars

\* what a client sends: text that is no JSON, or a message with a type and
\* perhaps a job id
ClientMessage(json, type, jobId) == [json |-> json, type |-> type, jobId |-> jobId]
ClientMessages ==
  {ClientMessage(FALSE, Undefined, Undefined)}
    \cup {ClientMessage(TRUE, t, j) :
            t \in {"subscribe", "unsubscribe", "ping"}, j \in JobIds \cup {Undefined, ""}}
\* msg.jobId is truthy
HasJobId(msg) == msg.jobId \notin {Undefined, ""}

\* a handler whose unsubscribe takes the client out of every set
onMessage_UnsubscribeAll(subs, c, msg) ==
  IF ~msg.json \/ ~HasJobId(msg) THEN subs
  ELSE IF msg.type = "subscribe" THEN [subs EXCEPT ![msg.jobId] = @ \cup {c}]
  ELSE IF msg.type = "unsubscribe" THEN [j \in DOMAIN subs |-> subs[j] \ {c}]
  ELSE subs

\* websocket.ts:26-40 the message handler: the registry after it has run
onMessage(subs, c, msg) ==
  IF ~msg.json \/ ~HasJobId(msg) THEN subs
  ELSE IF msg.type = "subscribe" THEN [subs EXCEPT ![msg.jobId] = @ \cup {c}]
  ELSE IF msg.type = "unsubscribe" THEN [subs EXCEPT ![msg.jobId] = @ \ {c}]
  ELSE subs

\* ws.on('message') with any message
OnMessage(c, msg) ==
  /\ readyState[c] = "OPEN"
  /\ jobSubscriptions' = onMessage(jobSubscriptions, c, msg)
  /\ UNCHANGED <<jobs, awaiting, allClients, readyState, received, statusLog, calls,
                 unhandled>>
  /\ UNCHANGED <<scrVars, clkVars, pagVars, libVars>>
  /\ UNCHANGED apiVars

\* ws.on('message') with {type:'subscribe', jobId}
Subscribe(c, jobId) ==
  /\ readyState[c] = "OPEN"
  /\ c \notin jobSubscriptions[jobId]
  /\ jobSubscriptions' = [jobSubscriptions EXCEPT ![jobId] = @ \cup {c}]
  /\ UNCHANGED <<jobs, awaiting, allClients, readyState, received, statusLog, calls,
                 unhandled>>
  /\ UNCHANGED <<scrVars, clkVars, pagVars, libVars>>
  /\ UNCHANGED apiVars

\* ws.on('message') with {type:'unsubscribe', jobId}
Unsubscribe(c, jobId) ==
  /\ readyState[c] = "OPEN"
  /\ c \in jobSubscriptions[jobId]
  /\ jobSubscriptions' = [jobSubscriptions EXCEPT ![jobId] = @ \ {c}]
  /\ UNCHANGED <<jobs, awaiting, allClients, readyState, received, statusLog, calls,
                 unhandled>>
  /\ UNCHANGED <<scrVars, clkVars, pagVars, libVars>>
  /\ UNCHANGED apiVars

\* the socket starts its closing handshake: readyState is CLOSING until the
\* 'close' event fires
BeginClose(c) ==
  /\ readyState[c] = "OPEN"
  /\ readyState' = [readyState EXCEPT ![c] = "CLOSING"]
  /\ UNCHANGED <<jobs, awaiting, jobSubscriptions, allClients, received, statusLog,
                 calls, unhandled>>
  /\ UNCHANGED <<scrVars, clkVars, pagVars, libVars>>
  /\ UNCHANGED apiVars

\* a close handler that leaves the subscriber sets alone
Close_KeepsSubscriptions(c) ==
  /\ readyState[c] \in {"OPEN", "CLOSING"}
  /\ readyState' = [readyState EXCEPT ![c] = "CLOSED"]
  /\ allClients' = allClients \ {c}
  /\ UNCHANGED <<jobs, awaiting, jobSubscriptions, received, statusLog, calls, unhandled>>
  /\ UNCHANGED <<scrVars, clkVars, pagVars, libVars>>
  /\ UNCHANGED apiVars

\* ws.on('close')
Close(c) ==
  /\ readyState[c] \in {"OPEN", "CLOSING"}
  /\ readyState' = [readyState EXCEPT ![c] = "CLOSED"]
  /\ allClients' = allClients \ {c}
  /\ jobSubscriptions' = [j \in JobIds |-> jobSubscriptions[j] \ {c}]
  /\ UNCHANGED <<jobs, awaiting, received, statusLog, calls, unhandled>>
  /\ UNCHANGED <<scrVars, clkVars, pagVars, libVars>>
  /\ UNCHANGED apiVars

\* closeWebSocketServer(), run by the SIGTERM and SIGINT handlers
\* (api.ts:173-183): the server stops taking connections, so a client that
\* has not connected never will, and both collections are cleared; the
\* handlers of the sockets already open stay in place
CloseWebSocketServer ==
  /\ readyState' = [c \in Clients |-> IF readyState[c] = "NEW" THEN "CLOSED"
                                      ELSE readyState[c]]
  /\ jobSubscriptions' = [j \in JobIds |-> {}]
  /\ allClients' = {}
  /\ UNCHANGED <<jobs, awaiting, received, statusLog, calls, unhandled>>
  /\ UNCHANGED <<scrVars, clkVars, pagVars, libVars>>
  /\ UNCHANGED apiVars

\* no library call is under way
NoCall == [fn |-> Undefined, arg |-> <<>>, done |-> FALSE, out |-> <<>>]
NoBatch ==
  [pc |-> "idle", urls |-> <<>>, i |-> 0, results |-> <<>>, started |-> <<>>,
   settled |-> <<>>]

\* the job service after construction

\* the service after start, with n clients to come
JobInitWith(n) ==
  /\ jobs = <<>>
  /\ awaiting = {}
  /\ jobSubscriptions = [j \in JobIds |-> {}]
  /\ allClients = {}
  /\ readyState = [c \in 1..n |-> "NEW"]
  /\ received = [c \in 1..n |-> [j \in JobIds |-> <<>>]]
  /\ statusLog = [j \in JobIds |-> <<>>]
  /\ calls = [j \in JobIds |-> <<>>]
  /\ unhandled = {}
  /\ responses = [j \in JobIds |-> NoResponse]
  /\ invalid = [body |-> NoBody, response |-> NoResponse]
  /\ options = [j \in JobIds |-> NoOptions]

JobInit == JobInitWith(MaxClients)

LibInit ==
  /\ call = NoCall
  /\ batch = NoBatch

\* ================================================================ scraper.ts
\* One OpenScrape instance. The browser (chromium.launch, newContext, goto,
\* context.close) is the environment: every navigation settles with a
\* response, with no response, or with an error.

MaxRequests == 2
MaxProxies == 2
MaxUnits == 4
\* the limiter's configuration (RateLimitConfig)
maxConcurrency == 2
maxRequestsPerSecond == 2

Reqs == DOMAIN req

\* A proxy string is a sequence of tokens: a blank, a scheme with its "://",
\* or a piece of host text. The proxy string number i, the empty string and
\* a string with a scheme parseProxyString does not take
Blank == " "
Schemes == {"http://", "https://", "socks5://", "ftp://"}
ProxyString(i) == <<"host", ToString(i)>>
EmptyString == <<>>
FtpString == <<"ftp://", "host">>

\* error messages: the text, the url the text names (if any), the attempt
\* count it names (if any) and the message it wraps (if any)
Msg(text, url, n, inner) == [text |-> text, url |-> url, attempts |-> n, inner |-> inner]
NoMsg == Msg(Undefined, Undefined, 0, Undefined)
TimeoutText == "page.goto: Timeout 30000ms exceeded"
RefusedText == "page.goto: net::ERR_CONNECTION_REFUSED"
ExtractText == "extraction failed"

\* String.prototype.trim
RECURSIVE trim(_)
trim(s) ==
  IF Len(s) = 0 THEN s
  ELSE IF Head(s) = Blank THEN trim(Tail(s))
  ELSE IF s[Len(s)] = Blank THEN trim(SubSeq(s, 1, Len(s) - 1))
  ELSE s

\* formatters.ts:90-95 new URL(urlInput): the parser refuses an empty host
\* and a blank inside the host
UrlParses(urlInput) ==
  /\ Len(urlInput) > 1
  /\ \A k \in 2..Len(urlInput) : urlInput[k] # Blank

\* formatters.ts:97 url.protocol without its colon
ProtocolOf(scheme) ==
  CASE scheme = "http://" -> "http"
    [] scheme = "https://" -> "https"
    [] scheme = "socks5://" -> "socks5"
    [] OTHER -> "ftp"

\* formatters.ts:102 url.port || the protocol's default
PortOf(protocol) ==
  CASE protocol = "https" -> "443"
    [] protocol = "socks5" -> "1080"
    [] OTHER -> "80"

Threw(text) ==
  [threw |-> TRUE, msg |-> Msg(text, Undefined, 0, Undefined), value |-> [server |-> <<>>]]

\* a parse that takes every scheme
parseProxyString_AnyScheme(proxyString) ==
  LET s == trim(proxyString)
      urlInput == IF s[1] \in Schemes THEN s ELSE <<"http://">> \o s
      protocol == ProtocolOf(urlInput[1])
  IN IF Len(s) = 0 THEN Threw("Empty proxy string")
     ELSE IF ~UrlParses(urlInput) THEN Threw("Invalid proxy URL")
     ELSE [threw |-> FALSE, msg |-> NoMsg,
           value |-> [server |-> <<protocol, "://">> \o Tail(urlInput)
                                   \o <<":", PortOf(protocol)>>]]

\* formatters.ts:82-108 parseProxyString (credentials and an explicit port
\* are left out)
parseProxyString(proxyString) ==
  LET s == trim(proxyString)
      \* line 88: a string without scheme is read as http
      urlInput == IF s[1] \in Schemes THEN s ELSE <<"http://">> \o s
      protocol == ProtocolOf(urlInput[1])
  IN IF Len(s) = 0 THEN Threw("Empty proxy string")
     ELSE IF ~UrlParses(urlInput) THEN Threw("Invalid proxy URL")
     ELSE IF protocol \notin {"http", "https", "socks5"}
          THEN Threw("Unsupported proxy protocol")
     ELSE [threw |-> FALSE, msg |-> NoMsg,
           value |-> [server |-> <<protocol, "://">> \o Tail(urlInput)
                                   \o <<":", PortOf(protocol)>>]]

\* formatters.ts:113-116 normalizeProxyInput: list.map(parseProxyString)
normalizeProxyInput(proxy) ==
  LET parsed == [i \in 1..Len(proxy) |-> parseProxyString(proxy[i])]
      bad == {i \in 1..Len(proxy) : parsed[i].threw}
  IN IF bad # {}
     THEN [threw |-> TRUE, msg |-> parsed[CHOOSE i \in bad : \A k \in bad : i <= k].msg,
           value |-> <<>>]
     ELSE [threw |-> FALSE, msg |-> NoMsg, value |-> [i \in 1..Len(proxy) |-> parsed[i].value]]

\* the list of the first n proxy strings
ProxyList(n) == [i \in 1..n |-> ProxyString(i)]

\* scraper.ts:23 no default pool (null)
NoPool == [configs |-> <<>>, index |-> 0, log |-> <<>>]

\* formatters.ts:126-130 new ProxyPool(proxy): the pool, or the error thrown
NewProxyPool(proxy) ==
  LET n == normalizeProxyInput(proxy)
  IN IF n.threw THEN [threw |-> TRUE, msg |-> n.msg, pool |-> NoPool]
     ELSE IF Len(n.value) = 0
          THEN [threw |-> TRUE,
                msg |-> Msg("At least one proxy is required", Undefined, 0, Undefined),
                pool |-> NoPool]
     ELSE [threw |-> FALSE, msg |-> NoMsg,
           pool |-> [configs |-> n.value, index |-> 0, log |-> <<>>]]

\* the pool of a list that parses
ProxyPool(proxy) == NewProxyPool(proxy).pool


\* A ProxyPool is its fields configs and index, and log: the calls made on
\* it so far, each with the cursor it read and the config it returned
Drawn(pool, config) == [op |-> "getNext", cursor |-> pool.index, config |-> config]
WasReset(pool) == [op |-> "reset", cursor |-> pool.index, config |-> [server |-> <<>>]]

\* a rotation that runs from the last config to the first
getNext_FromLast(pool) ==
  LET config == pool.configs[Len(pool.configs) - (pool.index % Len(pool.configs))]
  IN [config |-> config,
      pool |-> [pool EXCEPT !.index = @ + 1, !.log = Append(@, Drawn(pool, config))]]

\* a draw that leaves the cursor where it was
getNext_NoAdvance(pool) ==
  LET config == pool.configs[(pool.index % Len(pool.configs)) + 1]
  IN [config |-> config, pool |-> [pool EXCEPT !.log = Append(@, Drawn(pool, config))]]

\* formatters.ts:132-136 ProxyPool.getNext, as the config returned and the pool after
getNext(pool) ==
  LET config == pool.configs[(pool.index % Len(pool.configs)) + 1]
  IN [config |-> config,
      pool |-> [pool EXCEPT !.index = @ + 1, !.log = Append(@, Drawn(pool, config))]]

\* a reset that leaves the cursor where it was
reset_KeepsCursor(pool) == [pool EXCEPT !.log = Append(@, WasReset(pool))]

\* formatters.ts:144-146 ProxyPool.reset
reset(pool) == [pool EXCEPT !.index = 0, !.log = Append(@, WasReset(pool))]

\* formatters.ts:139-141 ProxyPool.size
size(pool) == Len(pool.configs)

\* scraper.ts:62 the loop drawing pool.size configs
RECURSIVE DrawAll(_, _, _)
DrawAll(pool, list, left) ==
  IF left = 0 THEN [value |-> list, pool |-> pool]
  ELSE LET d == getNext(pool)
       IN DrawAll(d.pool, Append(list, d.config), left - 1)

\* one draw from the default pool instead of size draws
getProxyConfigsForRequest_OneDraw(proxy, pool) ==
  IF proxy.given
  THEN LET n == normalizeProxyInput(proxy.list)
       IN [threw |-> n.threw, msg |-> n.msg, value |-> n.value, pool |-> pool]
  ELSE IF pool # NoPool
       THEN LET d == DrawAll(pool, <<>>, 1)
            IN [threw |-> FALSE, msg |-> NoMsg, value |-> d.value, pool |-> d.pool]
       ELSE [threw |-> FALSE, msg |-> NoMsg, value |-> <<>>, pool |-> pool]

\* scraper.ts:58-66 getProxyConfigsForRequest
getProxyConfigsForRequest(proxy, pool) ==
  IF proxy.given
  THEN LET n == normalizeProxyInput(proxy.list)
       IN [threw |-> n.threw, msg |-> n.msg, value |-> n.value, pool |-> pool]
  ELSE IF pool # NoPool
       THEN LET d == DrawAll(pool, <<>>, size(pool))
            IN [threw |-> FALSE, msg |-> NoMsg, value |-> d.value, pool |-> d.pool]
       ELSE [threw |-> FALSE, msg |-> NoMsg, value |-> <<>>, pool |-> pool]

\* scraper.ts:15-16
RETRYABLE_STATUSES == {403, 429}
RETRYABLE_MESSAGES(text) == text \in {TimeoutText}

Max(a, b) == IF a >= b THEN a ELSE b
maxTries(proxyConfigs) == Max(Len(proxyConfigs), 1)

NoProxy == [server |-> <<>>]
\* the proxy of one try, taken without the try's index
ProxyOfTry_First(proxyConfigs, tryIndex) ==
  IF Len(proxyConfigs) > 0 THEN proxyConfigs[1] ELSE NoProxy

\* scraper.ts:80 the proxy of one try
ProxyOfTry(proxyConfigs, tryIndex) ==
  IF Len(proxyConfigs) > 0
  THEN proxyConfigs[(tryIndex % Len(proxyConfigs)) + 1]
  ELSE NoProxy

NoOutcome == [kind |-> "pending", status |-> 0, text |-> Undefined]
NavOutcomes ==
  {[kind |-> "response", status |-> s, text |-> Undefined] : s \in {200, 403, 429}}
    \cup {[kind |-> "null", status |-> 0, text |-> Undefined]}
    \cup {[kind |-> "error", status |-> 0, text |-> t] : t \in {TimeoutText, RefusedText}}

\* what a unit will settle with: ok, the response status of the page (a
\* unit of a caller's: its value) and the error
NoHold == [ok |-> FALSE, status |-> 0, msg |-> NoMsg]
\* behind is history: the units that were waiting when this one was started
NewReq ==
  [pc |-> "new", fn |-> "scrape", url |-> Undefined, proxy |-> [given |-> FALSE, list |-> <<>>],
   proxyConfigs |-> <<>>, tryIndex |-> 0, next |-> Undefined, hold |-> NoHold,
   behind |-> <<>>, launched |-> FALSE]

\* A limiter world L threads what one continuation changes:
\*   req, queue, pendingCount, intervalCount, pool, contexts, attempts

\* scraper.ts:79-88 one loop iteration up to 'await page.goto': the loop
\* test, newContext with the try's proxy, newPage, goto
BeginTry(L, r, tryIndex) ==
  LET q == L.req[r]
  IN IF tryIndex < maxTries(q.proxyConfigs)
     THEN [L EXCEPT !.req[r].pc = "nav",
                    !.req[r].tryIndex = tryIndex,
                    !.contexts[r] = @ \cup {tryIndex},
                    !.attempts[r] = Append(@, [index |-> tryIndex,
                                               proxy |-> ProxyOfTry(q.proxyConfigs, tryIndex),
                                               outcome |-> NoOutcome])]
     ELSE \* scraper.ts:105
          [L EXCEPT !.req[r].pc = "rejected",
                    !.req[r].hold = [ok |-> FALSE, status |-> 0,
                                     msg |-> Msg("Failed to load", q.url,
                                                 maxTries(q.proxyConfigs), Undefined)]]

\* scraper.ts:114-116 the scrape unit's body up to its first await
BeginScrape(L, r) ==
  LET c == getProxyConfigsForRequest(L.req[r].proxy, L.pool)
  IN IF c.threw
     THEN [L EXCEPT !.req[r].pc = "rejected",
                    !.req[r].hold = [ok |-> FALSE, status |-> 0, msg |-> c.msg]]
     ELSE BeginTry([L EXCEPT !.req[r].proxyConfigs = c.value, !.pool = c.pool], r, 0)

\* rateLimiter.ts:37-38 'return await fn()': the unit is invoked; a unit
\* other than scrape's runs until it settles
BeginUnit(L, r) ==
  IF L.req[r].fn = "scrape"
  THEN BeginScrape(L, r)
  ELSE [L EXCEPT !.req[r].pc = "running"]

\* rateLimiter.ts:29-38 with PQueue's run(): the unit is started; it sleeps
\* when less than minDelay has passed since the last start (sleeps[r])
StartUnit(L, r, sleeps) ==
  LET L1 == [L EXCEPT !.pendingCount = @ + 1, !.intervalCount = @ + 1,
                      !.req[r].behind = L.queue]
  IN IF sleeps[r]
     THEN [L1 EXCEPT !.req[r].pc = "sleep"]
     ELSE BeginUnit(L1, r)

\* rateLimiter.ts:18-22 PQueue({concurrency, interval, intervalCap})
DoesConcurrentAllowAnother_Always(L) == TRUE
DoesConcurrentAllowAnother(L) == L.pendingCount < maxConcurrency
DoesIntervalAllowAnother(L) == L.intervalCount < maxRequestsPerSecond

CanStart(L) ==
  Len(L.queue) > 0 /\ DoesIntervalAllowAnother(L) /\ DoesConcurrentAllowAnother(L)

\* the newest waiting unit is started
TryToStartAnother_Newest(L, sleeps) ==
  IF CanStart(L)
  THEN StartUnit([L EXCEPT !.queue = SubSeq(@, 1, Len(@) - 1)], L.queue[Len(L.queue)],
                 sleeps)
  ELSE L

\* PQueue._tryToStartAnother: the oldest waiting unit is started when the
\* interval cap and the concurrency cap allow
TryToStartAnother(L, sleeps) ==
  IF CanStart(L)
  THEN StartUnit([L EXCEPT !.queue = Tail(@)], Head(L.queue), sleeps)
  ELSE L

\* PQueue._processQueue: while (_tryToStartAnother()) {}
RECURSIVE ProcessQueue(_, _)
ProcessQueue(L, sleeps) ==
  IF CanStart(L) THEN ProcessQueue(TryToStartAnother(L, sleeps), sleeps) ELSE L

\* rateLimiter.ts:29 queue.add(unit)
QueueAdd(L, r, sleeps) ==
  TryToStartAnother([L EXCEPT !.queue = Append(@, r), !.req[r].pc = "queued"], sleeps)

\* PQueue._next, run when a unit has settled
QueueNext(L, sleeps) ==
  TryToStartAnother([L EXCEPT !.pendingCount = @ - 1], sleeps)

Limiter ==
  [req |-> req, queue |-> queue, pendingCount |-> pendingCount,
   intervalCount |-> intervalCount, pool |-> defaultProxyPool, contexts |-> contexts,
   attempts |-> attempts]

CommitLimiter(L) ==
  /\ req' = L.req
  /\ queue' = L.queue
  /\ pendingCount' = L.pendingCount
  /\ intervalCount' = L.intervalCount
  /\ defaultProxyPool' = L.pool
  /\ contexts' = L.contexts
  /\ attempts' = L.attempts

Sleeps == [Reqs -> BOOLEAN]

\* options.proxy: absent, a string that does not parse, or one proxy string
ProxyOptions ==
  {[given |-> FALSE, list |-> <<>>], [given |-> TRUE, list |-> <<EmptyString>>],
   [given |-> TRUE, list |-> ProxyList(1)]}

\* scraper.ts:111-114 scrape(options): init() and, with a browser at hand,
\* rateLimiter.execute
Scrape(r, url, proxy, sleeps) ==
  /\ req[r].pc = "new"
  /\ \A k \in Reqs : k < r => req[k].pc # "new"
  /\ LET L == [Limiter EXCEPT !.req[r].url = url, !.req[r].proxy = proxy]
     IN IF browser = "null"
        THEN CommitLimiter([L EXCEPT !.req[r].pc = "launch"])
        ELSE CommitLimiter(QueueAdd(L, r, sleeps))
  /\ UNCHANGED <<browser, settled>>
  /\ UNCHANGED <<jobVars, clkVars, pagVars, libVars>>

\* scraper.ts:38-42 chromium.launch() has resolved: this.browser is the
\* browser launched for this call
Launched(r, sleeps) ==
  /\ req[r].pc = "launch"
  /\ browser' = ToString(r)
  /\ CommitLimiter(QueueAdd([Limiter EXCEPT !.req[r].launched = TRUE], r, sleeps))
  /\ UNCHANGED settled
  /\ UNCHANGED <<jobVars, clkVars, pagVars, libVars>>

\* rateLimiter.ts:34-38 the cadence sleep is over
Wake(r) ==
  /\ req[r].pc = "sleep"
  /\ CommitLimiter(BeginUnit(Limiter, r))
  /\ UNCHANGED <<browser, settled>>
  /\ UNCHANGED <<jobVars, clkVars, pagVars, libVars>>

\* scraper.ts:88-101 page.goto has settled
NavSettles(r, outcome) ==
  /\ req[r].pc = "nav"
  /\ LET q == req[r]
         more == q.tryIndex < maxTries(q.proxyConfigs) - 1
         L == [Limiter EXCEPT !.attempts[r][Len(attempts[r])].outcome = outcome]
     IN CASE outcome.kind = "error" ->
               \* line 98: await context.close()
               CommitLimiter([L EXCEPT !.req[r].pc = "closing",
                  !.req[r].next = IF RETRYABLE_MESSAGES(outcome.text) /\ more
                                  THEN "continue" ELSE "throw",
                  !.req[r].hold = [ok |-> FALSE, status |-> 0,
                                   msg |-> Msg(outcome.text, Undefined, 0, Undefined)]])
          [] outcome.kind = "response" /\ outcome.status \in RETRYABLE_STATUSES /\ more ->
               \* line 92: await context.close()
               CommitLimiter([L EXCEPT !.req[r].pc = "closing", !.req[r].next = "continue"])
          [] OTHER ->
               \* line 96: return { context, page }
               CommitLimiter([L EXCEPT !.req[r].pc = "page",
                  !.req[r].hold = [ok |-> TRUE, status |-> outcome.status, msg |-> NoMsg]])
  /\ UNCHANGED <<browser, settled>>
  /\ UNCHANGED <<jobVars, clkVars, pagVars, libVars>>

\* the loop going on without 'await context.close()'
ContextClosed_Leak(r) ==
  /\ req[r].pc = "closing"
  /\ LET q == req[r]
     IN IF q.next = "continue"
        THEN CommitLimiter(BeginTry([Limiter EXCEPT !.req[r].hold = NoHold], r,
                                    q.tryIndex + 1))
        ELSE CommitLimiter([Limiter EXCEPT !.req[r].pc = "rejected"])
  /\ UNCHANGED <<browser, settled>>
  /\ UNCHANGED <<jobVars, clkVars, pagVars, libVars>>

\* scraper.ts:92-93, 98-101 context.close() has resolved inside the loop
ContextClosed(r) ==
  /\ req[r].pc = "closing"
  /\ LET q == req[r]
         L == [Limiter EXCEPT !.contexts[r] = @ \ {q.tryIndex}]
     IN IF q.next = "continue"
        THEN CommitLimiter(BeginTry([L EXCEPT !.req[r].hold = NoHold], r, q.tryIndex + 1))
        ELSE CommitLimiter([L EXCEPT !.req[r].pc = "rejected"])
  /\ UNCHANGED <<browser, settled>>
  /\ UNCHANGED <<jobVars, clkVars, pagVars, libVars>>

\* scraper.ts:118-212 the try block after navigation, up to 'finally'
PageWork(r, ok) ==
  /\ req[r].pc = "page"
  /\ req' = [req EXCEPT ![r].pc = "finally",
                        ![r].hold = IF ok THEN @
                                    ELSE [ok |-> FALSE, status |-> 0,
                                          msg |-> Msg("Failed to scrape", req[r].url, 0,
                                                      ExtractText)]]
  /\ UNCHANGED <<browser, defaultProxyPool, queue, pendingCount, intervalCount, contexts,
                 attempts, settled>>
  /\ UNCHANGED <<jobVars, clkVars, pagVars, libVars>>

\* a unit that rejects keeps its slot
Settle_SlotKeptOnError(L, r, sleeps) ==
  /\ settled' = [settled EXCEPT ![r] = [done |-> TRUE, ok |-> L.req[r].hold.ok,
                                        status |-> L.req[r].hold.status,
                                        msg |-> L.req[r].hold.msg]]
  /\ IF L.req[r].hold.ok
     THEN CommitLimiter(QueueNext([L EXCEPT !.req[r].pc = "done"], sleeps))
     ELSE CommitLimiter([L EXCEPT !.req[r].pc = "done"])

\* rateLimiter.ts:38-39 the unit has settled: the promise of execute()
\* settles the same way, and PQueue releases the slot
Settle(L, r, sleeps) ==
  /\ settled' = [settled EXCEPT ![r] = [done |-> TRUE, ok |-> L.req[r].hold.ok,
                                        status |-> L.req[r].hold.status,
                                        msg |-> L.req[r].hold.msg]]
  /\ CommitLimiter(QueueNext([L EXCEPT !.req[r].pc = "done"], sleeps))

\* scraper.ts:213-215 context.close() has resolved in 'finally': the unit
\* settles and PQueue releases its slot
FinallyClosed(r, sleeps) ==
  /\ req[r].pc = "finally"
  /\ Settle([Limiter EXCEPT !.contexts[r] = @ \ {req[r].tryIndex}], r, sleeps)
  /\ UNCHANGED browser
  /\ UNCHANGED <<jobVars, clkVars, pagVars, libVars>>

\* an error thrown before or during navigation leaves the unit: the unit
\* rejects and PQueue releases its slot
Rejected(r, sleeps) ==
  /\ req[r].pc = "rejected"
  /\ Settle(Limiter, r, sleeps)
  /\ UNCHANGED browser
  /\ UNCHANGED <<jobVars, clkVars, pagVars, libVars>>

\* PQueue's interval timer fires: a new interval begins
IntervalTick(sleeps) ==
  /\ intervalCount > 0
  /\ CommitLimiter(ProcessQueue([Limiter EXCEPT !.intervalCount = 0], sleeps))
  /\ UNCHANGED <<browser, settled>>
  /\ UNCHANGED <<jobVars, clkVars, pagVars, libVars>>

\* rateLimiter.ts:28 execute(fn) with a unit of the caller's
Execute(r, sleeps) ==
  /\ req[r].pc = "new"
  /\ \A k \in Reqs : k < r => req[k].pc # "new"
  /\ CommitLimiter(QueueAdd(Limiter, r, sleeps))
  /\ UNCHANGED <<browser, settled>>
  /\ UNCHANGED <<jobVars, clkVars, pagVars, libVars>>

UnitErrorText == "unit failed"
\* rateLimiter.ts:38 the unit's promise has settled, with its value (unit r
\* returns r) or with an error
UnitSettles(r, ok, sleeps) ==
  /\ req[r].pc = "running"
  /\ Settle([Limiter EXCEPT !.req[r].hold =
               [ok |-> ok, status |-> IF ok THEN r ELSE 0,
                msg |-> IF ok THEN NoMsg ELSE Msg(UnitErrorText, Undefined, 0, Undefined)]],
            r, sleeps)
  /\ UNCHANGED browser
  /\ UNCHANGED <<jobVars, clkVars, pagVars, libVars>>

\* ------------------------------------------------ rateLimiter.ts, clocked

\* The same limiter with Date.now() and its timers: a timer fires when it is
\* due, before the clock moves on.
MaxTicks == 6

\* rateLimiter.ts:20 PQueue's interval, in ms
interval == 1000
\* rateLimiter.ts:16
minDelay == 1000 \div maxRequestsPerSecond
\* the clock is read in steps of half a cadence
Quantum == minDelay \div 2

\* rateLimiter.ts:10 lastRequestTime = 0; Date.now() is far from the epoch,
\* so the first unit never sleeps
ClockInit ==
  /\ now = interval
  /\ lastRequestTime = 0
  /\ wakeAt = [r \in 1..MaxUnits |-> 0]
  /\ intervalEnd = 0
  /\ invoked = <<>>

Clocked ==
  [req |-> req, queue |-> queue, pendingCount |-> pendingCount,
   intervalCount |-> intervalCount, pool |-> defaultProxyPool, contexts |-> contexts,
   attempts |-> attempts, now |-> now, lastRequestTime |-> lastRequestTime,
   wakeAt |-> wakeAt, intervalEnd |-> intervalEnd, invoked |-> invoked]

CommitClocked(T) ==
  /\ CommitLimiter(T)
  /\ lastRequestTime' = T.lastRequestTime
  /\ wakeAt' = T.wakeAt
  /\ intervalEnd' = T.intervalEnd
  /\ invoked' = T.invoked

\* rateLimiter.ts:37-38 'this.lastRequestTime = Date.now(); return await fn()'
InvokeAt(T, r) ==
  BeginUnit([T EXCEPT !.lastRequestTime = T.now,
                      !.wakeAt[r] = 0,
                      !.invoked = Append(@, [unit |-> r, at |-> T.now])], r)

\* rateLimiter.ts:29-38 with PQueue's run(): the unit is started and runs up
\* to its first await; PQueue starts its interval timer if none is running
StartUnitAt(T, r) ==
  LET timeSinceLastRequest == T.now - T.lastRequestTime
      T1 == [T EXCEPT !.pendingCount = @ + 1, !.intervalCount = @ + 1,
                      !.req[r].behind = T.queue,
                      !.intervalEnd = IF @ = 0 THEN T.now + interval ELSE @]
  IN IF timeSinceLastRequest < minDelay
     THEN [T1 EXCEPT !.req[r].pc = "sleep",
                     !.wakeAt[r] = T.now + (minDelay - timeSinceLastRequest)]
     ELSE InvokeAt(T1, r)

\* PQueue._tryToStartAnother
TryToStartAnotherAt(T) ==
  IF CanStart(T) THEN StartUnitAt([T EXCEPT !.queue = Tail(@)], Head(T.queue)) ELSE T

\* PQueue._processQueue
RECURSIVE ProcessQueueAt(_)
ProcessQueueAt(T) == IF CanStart(T) THEN ProcessQueueAt(TryToStartAnotherAt(T)) ELSE T

\* rateLimiter.ts:29 queue.add(unit)
QueueAddAt(T, r) ==
  TryToStartAnotherAt([T EXCEPT !.queue = Append(@, r), !.req[r].pc = "queued"])

\* PQueue._next, run when a unit has settled
QueueNextAt(T) == TryToStartAnotherAt([T EXCEPT !.pendingCount = @ - 1])

\* rateLimiter.ts:28 execute(fn)
ExecuteAt(r) ==
  /\ req[r].pc = "new"
  /\ \A k \in Reqs : k < r => req[k].pc # "new"
  /\ CommitClocked(QueueAddAt(Clocked, r))
  /\ UNCHANGED <<browser, settled, now>>
  /\ UNCHANGED <<jobVars, pagVars, libVars>>

\* rateLimiter.ts:34-38 the sleep's timer has fired
WakeAt(r) ==
  /\ req[r].pc = "sleep"
  /\ wakeAt[r] <= now
  /\ CommitClocked(InvokeAt(Clocked, r))
  /\ UNCHANGED <<browser, settled, now>>
  /\ UNCHANGED <<jobVars, pagVars, libVars>>

\* rateLimiter.ts:38 the unit's promise has settled
UnitSettlesAt(r, ok) ==
  /\ req[r].pc = "running"
  /\ settled' = [settled EXCEPT ![r] =
       [done |-> TRUE, ok |-> ok, status |-> 0,
        msg |-> IF ok THEN NoMsg ELSE Msg(UnitErrorText, Undefined, 0, Undefined)]]
  /\ CommitClocked(QueueNextAt([Clocked EXCEPT !.req[r].pc = "done"]))
  /\ UNCHANGED <<browser, now>>
  /\ UNCHANGED <<jobVars, pagVars, libVars>>

\* PQueue._onInterval: the interval timer has fired; it is cleared when
\* nothing was started in the interval and nothing runs
IntervalEnds ==
  /\ intervalEnd # 0
  /\ intervalEnd <= now
  /\ CommitClocked(ProcessQueueAt(
       [Clocked EXCEPT !.intervalCount = 0,
                       !.intervalEnd = IF intervalCount = 0 /\ pendingCount = 0
                                       THEN 0 ELSE @ + interval]))
  /\ UNCHANGED <<browser, settled, now>>
  /\ UNCHANGED <<jobVars, pagVars, libVars>>

\* time passes, once every due timer has fired
Tick ==
  /\ now < interval + MaxTicks * Quantum
  /\ \A r \in Reqs : req[r].pc = "sleep" => wakeAt[r] > now
  /\ intervalEnd # 0 => intervalEnd > now
  /\ now' = now + Quantum
  /\ UNCHANGED <<lastRequestTime, wakeAt, intervalEnd, invoked>>
  /\ UNCHANGED <<jobVars, scrVars, pagVars, libVars>>

\* ---------------------------------------- pagination.ts, scraper.ts:125-154

\* The site is the environment: three pages, each with a "next" link to the
\* following one, the last with none, and a page p4 with no link and a
\* "Load More" button that appends in place. hrefs are absolute.
Pages == {"p1", "p2", "p3", "p4"}
\* the page shows a visible "Load More" button; a click leaves page.url()
LoadMore(p) == p = "p4"
Null == "null"
NextLink(p) ==
  CASE p = "p1" -> "p2"
    [] p = "p2" -> "p3"
    [] OTHER -> Null

\* page.content(): the markup of the page the Page object is at
Markup(p) == <<p>>

\* scraper.ts:222-226 mergeHtml: htmlPages.join('\n')
RECURSIVE mergeHtml(_)
mergeHtml(htmlPages) ==
  IF Len(htmlPages) = 0 THEN <<>>
  ELSE IF Len(htmlPages) = 1 THEN htmlPages[1]
  ELSE htmlPages[1] \o <<"\n">> \o mergeHtml(Tail(htmlPages))

\* options.maxDepth: undefined or a number; how the next url is found:
\* options.paginationCallback, options.nextSelector, or neither
NoDepth == [given |-> FALSE, value |-> 0]
MaxDepths == {NoDepth} \cup {[given |-> TRUE, value |-> d] : d \in {1, 2, 10}}
Resolvers == {"paginationCallback", "nextSelector", "default"}

PagIdle ==
  [pc |-> "idle", caller |-> Undefined, url |-> Undefined, maxDepth |-> NoDepth,
   resolver |-> Undefined, visited0 |-> {}, visitedUrls |-> {}, urls |-> <<>>,
   currentUrl |-> Undefined, depth |-> 0, html |-> <<>>, allContent |-> <<>>, i |-> 0,
   answers |-> <<>>, returns |-> <<>>, queried |-> {}]

PagInit ==
  /\ page = Undefined
  /\ pag = PagIdle

\* what a resolution answers and which selectors it asked the page for
Answer(url, queried) == [url |-> url, queried |-> queried]

\* pagination.ts:78-139 detectNextLink on the page at 'at': the first link
\* that resolves to another url than currentUrl; failing that, after a click
\* on "Load More", page.url() if it differs from currentUrl and currentUrl
\* if it does not
detectNextLink(at, currentUrl) ==
  IF NextLink(at) # Null /\ NextLink(at) # currentUrl
  THEN Answer(NextLink(at), {"patterns"})
  ELSE IF LoadMore(at)
  THEN Answer(IF at # currentUrl THEN at ELSE currentUrl, {"patterns", "loadMoreSelectors"})
  ELSE Answer(Null, {"patterns", "loadMoreSelectors"})

\* a resolution that asks the page first and the callback last
findNextUrl_SelectorFirst(at, resolver, currentUrl, returned) ==
  IF NextLink(at) # Null THEN Answer(NextLink(at), {"nextSelector"})
  ELSE IF resolver = "paginationCallback" THEN Answer(returned, {"nextSelector"})
  ELSE LET d == detectNextLink(at, currentUrl)
       IN Answer(d.url, d.queried \cup {"nextSelector"})

\* pagination.ts:46-73 findNextUrl; 'returned' is what the caller's callback
\* returns when it is called
findNextUrl(at, resolver, currentUrl, returned) ==
  CASE resolver = "paginationCallback" -> Answer(returned, {})
    [] resolver = "nextSelector" ->
         IF NextLink(at) # Null THEN Answer(NextLink(at), {"nextSelector"})
         ELSE LET d == detectNextLink(at, currentUrl)
              IN Answer(d.url, d.queried \cup {"nextSelector"})
    [] OTHER -> detectNextLink(at, currentUrl)

\* pagination.ts:18 options.maxDepth ?? 10
DepthOf(maxDepth) == IF maxDepth.given THEN maxDepth.value ELSE 10

\* pagination.ts:40 return urls; in scrape, lines 137-154: with more than
\* one url the others are loaded one after the other
RECURSIVE NextToLoad(_, _)
NextToLoad(P, i) ==
  IF i > Len(P.urls) THEN 0
  ELSE IF P.urls[i] # P.url THEN i ELSE NextToLoad(P, i + 1)

\* scraper.ts:139-154 the loop over urls from position i up to its next
\* 'await page.goto', or to mergeHtml after the last url
LoadFrom(P, i) ==
  LET n == NextToLoad(P, i)
  IN IF n = 0
     THEN [P EXCEPT !.pc = "extract", !.html = mergeHtml(P.allContent)]
     ELSE [P EXCEPT !.pc = "goto", !.i = n]

Return(P) ==
  IF P.caller = "scrape"
  THEN IF Len(P.urls) > 1
       THEN LoadFrom([P EXCEPT !.allContent = <<P.html>>], 1)
       ELSE [P EXCEPT !.pc = "extract"]
  ELSE [P EXCEPT !.pc = "returned"]

\* a loop that does not look at visitedUrls before it records the url
LoopHead_NoVisitedTest(P) ==
  IF P.depth < DepthOf(P.maxDepth)
  THEN [P EXCEPT !.visitedUrls = @ \cup {P.currentUrl},
                 !.urls = Append(@, P.currentUrl),
                 !.pc = "find"]
  ELSE Return(P)

\* a loop without its depth test
LoopHead_NoDepthTest(P) ==
  IF P.currentUrl \in P.visitedUrls
  THEN Return(P)
  ELSE [P EXCEPT !.visitedUrls = @ \cup {P.currentUrl},
                 !.urls = Append(@, P.currentUrl),
                 !.pc = "find"]

\* pagination.ts:22-30 the loop from its test up to 'await findNextUrl'
LoopHead(P) ==
  IF P.depth < DepthOf(P.maxDepth)
  THEN IF P.currentUrl \in P.visitedUrls
       THEN Return(P)
       ELSE [P EXCEPT !.visitedUrls = @ \cup {P.currentUrl},
                      !.urls = Append(@, P.currentUrl),
                      !.pc = "find"]
  ELSE Return(P)

\* pagination.ts:12-20 handlePagination(page, options, visitedUrls)
handlePagination(P, visitedUrls) ==
  LoopHead([P EXCEPT !.visited0 = visitedUrls, !.visitedUrls = visitedUrls,
                     !.urls = <<>>, !.currentUrl = P.url, !.depth = 0])

\* a test calls handlePagination with a page at options.url; visitedUrls is
\* left to its default (an empty set) or given
HandlePagination(url, maxDepth, resolver, visitedUrls) ==
  /\ pag.pc = "idle"
  /\ page' = url
  /\ pag' = handlePagination([PagIdle EXCEPT !.caller = "test", !.url = url,
                                             !.maxDepth = maxDepth,
                                             !.resolver = resolver], visitedUrls)
  /\ UNCHANGED <<jobVars, scrVars, clkVars, libVars>>

\* scraper.ts:125-134 in scrape, after navigation to options.url:
\* html = await page.content(), then pagination if maxDepth is set
ScrapePages(url, maxDepth, resolver) ==
  /\ pag.pc = "idle"
  /\ page' = url
  /\ LET P == [PagIdle EXCEPT !.caller = "scrape", !.url = url, !.maxDepth = maxDepth,
                              !.resolver = resolver, !.html = Markup(url)]
     IN pag' = IF maxDepth.given /\ maxDepth.value > 0
               THEN handlePagination(P, {url})
               ELSE [P EXCEPT !.pc = "extract"]
  /\ UNCHANGED <<jobVars, scrVars, clkVars, libVars>>

\* a continuation that takes whatever url it is given as the next one
FindNextUrlSettles_NoGuard(returned) ==
  /\ pag.pc = "find"
  /\ pag.resolver # "paginationCallback" => returned = Null
  /\ LET f == findNextUrl(page, pag.resolver, pag.currentUrl, returned)
         P == [pag EXCEPT !.answers = Append(@, f.url),
                          !.returns = IF pag.resolver = "paginationCallback"
                                      THEN Append(@, returned) ELSE @,
                          !.queried = @ \cup f.queried]
     IN pag' = IF f.url = Null
               THEN Return(P)
               ELSE LoopHead_NoVisitedTest([P EXCEPT !.currentUrl = f.url, !.depth = @ + 1])
  /\ UNCHANGED page
  /\ UNCHANGED <<jobVars, scrVars, clkVars, libVars>>

\* pagination.ts:30-38 findNextUrl has resolved; 'returned' is the
\* callback's return value, null when there is no callback to call
FindNextUrlSettles(returned) ==
  /\ pag.pc = "find"
  /\ pag.resolver # "paginationCallback" => returned = Null
  /\ LET f == findNextUrl(page, pag.resolver, pag.currentUrl, returned)
         P == [pag EXCEPT !.answers = Append(@, f.url),
                          !.returns = IF pag.resolver = "paginationCallback"
                                      THEN Append(@, returned) ELSE @,
                          !.queried = @ \cup f.queried]
     IN pag' = IF f.url = Null \/ f.url \in pag.visitedUrls
               THEN Return(P)
               ELSE LoopHead([P EXCEPT !.currentUrl = f.url, !.depth = @ + 1])
  /\ UNCHANGED page
  /\ UNCHANGED <<jobVars, scrVars, clkVars, libVars>>

\* scraper.ts:141-149 page.goto(url) has resolved: the page's markup is kept
GotoSettles ==
  /\ pag.pc = "goto"
  /\ page' = pag.urls[pag.i]
  /\ pag' = LoadFrom([pag EXCEPT !.allContent = Append(@, Markup(pag.urls[pag.i]))],
                     pag.i + 1)
  /\ UNCHANGED <<jobVars, scrVars, clkVars, libVars>>

\* an OpenScrape / a RateLimiter after construction, with n calls to come
ScrInit(n, fn) ==
  /\ browser = "null"
  /\ req = [r \in 1..n |-> [NewReq EXCEPT !.fn = fn]]
  /\ queue = <<>>
  /\ pendingCount = 0
  /\ intervalCount = 0
  /\ contexts = [r \in 1..n |-> {}]
  /\ attempts = [r \in 1..n |-> <<>>]
  /\ settled = [r \in 1..n |-> [done |-> FALSE, ok |-> FALSE, status |-> 0, msg |-> NoMsg]]

\* new OpenScrape(): no default proxy; new OpenScrape({proxy: [...]})
ScrapeInit ==
  /\ JobInit
  /\ ClockInit
  /\ PagInit
  /\ LibInit
  /\ ScrInit(MaxRequests, "scrape")
  /\ defaultProxyPool \in
       {NoPool, ProxyPool(ProxyList(MaxProxies))}

ScrapeNext ==
  \/ \E r \in Reqs, url \in Urls, proxy \in ProxyOptions, sleeps \in Sleeps :
       Scrape(r, url, proxy, sleeps)
  \/ \E r \in Reqs, sleeps \in Sleeps : Launched(r, sleeps)
  \/ \E r \in Reqs : Wake(r)
  \/ \E r \in Reqs, outcome \in NavOutcomes : NavSettles(r, outcome)
  \/ \E r \in Reqs : ContextClosed(r)
  \/ \E r \in Reqs, ok \in BOOLEAN : PageWork(r, ok)
  \/ \E r \in Reqs, sleeps \in Sleeps : FinallyClosed(r, sleeps)
  \/ \E r \in Reqs, sleeps \in Sleeps : Rejected(r, sleeps)
  \/ \E sleeps \in Sleeps : IntervalTick(sleeps)

ScrapeSpec == ScrapeInit /\ [][ScrapeNext]_vars

\* new RateLimiter({maxConcurrency, maxRequestsPerSecond}) and MaxUnits units
LimiterInit ==
  /\ JobInit
  /\ ClockInit
  /\ PagInit
  /\ LibInit
  /\ ScrInit(MaxUnits, "unit")
  /\ defaultProxyPool = NoPool

LimiterNext ==
  \/ \E r \in Reqs, sleeps \in Sleeps : Execute(r, sleeps)
  \/ \E r \in Reqs : Wake(r)
  \/ \E r \in Reqs, ok \in BOOLEAN, sleeps \in Sleeps : UnitSettles(r, ok, sleeps)
  \/ \E sleeps \in Sleeps : IntervalTick(sleeps)

LimiterSpec == LimiterInit /\ [][LimiterNext]_vars

\* every timer set fires and every unit invoked settles, well or with an
\* error
FairLimiterSpec ==
  /\ LimiterSpec
  /\ \A r \in 1..MaxUnits : WF_vars(Wake(r))
  /\ \A r \in 1..MaxUnits : WF_vars(\E ok \in BOOLEAN, sleeps \in Sleeps : UnitSettles(r, ok, sleeps))
  /\ WF_vars(\E sleeps \in Sleeps : IntervalTick(sleeps))

PaginationInit ==
  /\ JobInit
  /\ ScrInit(0, "scrape")
  /\ defaultProxyPool = NoPool
  /\ ClockInit
  /\ PagInit
  /\ LibInit

PaginationNext ==
  \/ \E url \in Pages, maxDepth \in MaxDepths, resolver \in Resolvers :
       \E visitedUrls \in {{}, {url}} :
         HandlePagination(url, maxDepth, resolver, visitedUrls)
  \/ \E url \in Pages, maxDepth \in MaxDepths, resolver \in Resolvers :
       ScrapePages(url, maxDepth, resolver)
  \/ \E returned \in Pages \cup {Null} : FindNextUrlSettles(returned)

\* GotoSettles is no step of the specification: scrape never gets more than
\* one url back (GotoNeverAwaited), so 'await page.goto' at scraper.ts:141 is
\* never reached
PaginationSpec == PaginationInit /\ [][PaginationNext]_vars

\* every awaited findNextUrl resolves
FairPaginationSpec ==
  PaginationSpec /\ WF_vars(\E returned \in Pages \cup {Null} : FindNextUrlSettles(returned))

\* ------------------------------------------- formatters.ts:122-147 ProxyPool

\* One ProxyPool of 1..MaxProxies proxies and the calls a holder makes on it.
MaxCalls == 6

\* formatters.ts:132 pool.getNext()
GetNext ==
  /\ Len(defaultProxyPool.log) < MaxCalls
  /\ defaultProxyPool' = getNext(defaultProxyPool).pool
  /\ UNCHANGED <<browser, req, queue, pendingCount, intervalCount, contexts, attempts,
                 settled>>
  /\ UNCHANGED <<jobVars, clkVars, pagVars, libVars>>

\* formatters.ts:144 pool.reset()
Reset ==
  /\ Len(defaultProxyPool.log) < MaxCalls
  /\ defaultProxyPool' = reset(defaultProxyPool)
  /\ UNCHANGED <<browser, req, queue, pendingCount, intervalCount, contexts, attempts,
                 settled>>
  /\ UNCHANGED <<jobVars, clkVars, pagVars, libVars>>

PoolInit ==
  /\ JobInit
  /\ ScrInit(0, "scrape")
  /\ ClockInit
  /\ PagInit
  /\ LibInit
  /\ defaultProxyPool \in {ProxyPool(ProxyList(n)) : n \in 1..MaxProxies}

PoolNext == GetNext \/ Reset

PoolSpec == PoolInit /\ [][PoolNext]_vars

\* ------------------------------------- formatters.ts:82-130, one call each

MaxLen == 3
MaxList == 2

Tokens == {Blank, "host"} \cup Schemes
ProxyStrings == UNION {[1..n -> Tokens] : n \in 0..MaxLen}
\* the strings the lists given to new ProxyPool are made of
ListStrings == {EmptyString, <<Blank>>, ProxyString(1), FtpString, <<"socks5://", "host">>}
ProxyLists == UNION {[1..n -> ListStrings] : n \in 0..MaxList}

Calling(fn, arg) == [fn |-> fn, arg |-> arg, done |-> FALSE, out |-> <<>>]

\* formatters.ts:82 parseProxyString(proxyString) runs
ParseProxyString ==
  /\ call.fn = "parseProxyString"
  /\ ~call.done
  /\ call' = [call EXCEPT !.done = TRUE, !.out = parseProxyString(call.arg)]
  /\ UNCHANGED batch
  /\ UNCHANGED <<jobVars, scrVars, clkVars, pagVars>>

\* formatters.ts:126 new ProxyPool(proxy) runs
ConstructPool ==
  /\ call.fn = "ProxyPool"
  /\ ~call.done
  /\ call' = [call EXCEPT !.done = TRUE, !.out = NewProxyPool(call.arg)]
  /\ UNCHANGED batch
  /\ UNCHANGED <<jobVars, scrVars, clkVars, pagVars>>

ParseInit ==
  /\ JobInit
  /\ ScrInit(0, "scrape")
  /\ defaultProxyPool = NoPool
  /\ ClockInit
  /\ PagInit
  /\ batch = NoBatch
  /\ call \in {Calling("parseProxyString", s) : s \in ProxyStrings}
               \cup {Calling("ProxyPool", l) : l \in ProxyLists}

ParseNext == ParseProxyString \/ ConstructPool

ParseSpec == ParseInit /\ [][ParseNext]_vars

\* ---------------------------------------------------------------------
\* scraper.ts:231-254 scrapeBatch: one scrape at a time, a failure turned
\* into a placeholder result
MaxBatch == 3
BatchUrls == {"u1", "u2"}
UrlLists == UNION {[1..n -> BatchUrls] : n \in 0..MaxBatch}

\* a ScrapedData of the batch: url, content and metadata.error
Scraped(url, content, error) == [url |-> url, content |-> content, error |-> error]
\* what this.scrape({...options, url}) settles with: the data extract() built
\* for options.url (extractor.ts:39-43), or an error
ScrapeSettlements(url) ==
  {[ok |-> TRUE, data |-> Scraped(url, content, Undefined), message |-> Undefined] :
     content \in {"", "text"}}
    \cup {[ok |-> FALSE, data |-> Scraped(Undefined, Undefined, Undefined),
           message |-> "Failed to scrape"]}

\* scraper.ts:235-239 results = [], the loop reaches its first await
ScrapeBatch(urls) ==
  /\ batch.pc = "idle"
  /\ batch' = IF Len(urls) = 0
              THEN [batch EXCEPT !.pc = "returned", !.urls = urls]
              ELSE [batch EXCEPT !.pc = "awaiting scrape", !.urls = urls, !.i = 1,
                                 !.started = <<urls[1]>>]
  /\ UNCHANGED call
  /\ UNCHANGED <<jobVars, scrVars, clkVars, pagVars>>

\* a batch in which an error of scrape leaves the loop
BatchScrapeSettles_Abort(outcome) ==
  /\ batch.pc = "awaiting scrape"
  /\ outcome \in ScrapeSettlements(batch.urls[batch.i])
  /\ batch' = IF ~outcome.ok
              THEN [batch EXCEPT !.pc = "returned", !.settled = Append(@, outcome)]
              ELSE IF batch.i < Len(batch.urls)
              THEN [batch EXCEPT !.results = Append(@, outcome.data),
                                 !.settled = Append(@, outcome), !.i = @ + 1,
                                 !.started = Append(@, batch.urls[batch.i + 1])]
              ELSE [batch EXCEPT !.results = Append(@, outcome.data),
                                 !.settled = Append(@, outcome), !.pc = "returned"]
  /\ UNCHANGED call
  /\ UNCHANGED <<jobVars, scrVars, clkVars, pagVars>>

\* scraper.ts:239-250 the awaited scrape settles: push the data or the
\* placeholder, then the next url's scrape (237) or return results (253)
BatchScrapeSettles(outcome) ==
  /\ batch.pc = "awaiting scrape"
  /\ outcome \in ScrapeSettlements(batch.urls[batch.i])
  /\ LET url == batch.urls[batch.i]
         pushed == IF outcome.ok THEN outcome.data
                   ELSE Scraped(url, "", outcome.message)
     IN batch' = IF batch.i < Len(batch.urls)
                 THEN [batch EXCEPT !.results = Append(@, pushed),
                                    !.settled = Append(@, outcome), !.i = @ + 1,
                                    !.started = Append(@, batch.urls[batch.i + 1])]
                 ELSE [batch EXCEPT !.results = Append(@, pushed),
                                    !.settled = Append(@, outcome), !.pc = "returned"]
  /\ UNCHANGED call
  /\ UNCHANGED <<jobVars, scrVars, clkVars, pagVars>>

BatchInit ==
  /\ JobInit
  /\ ScrInit(0, "scrape")
  /\ defaultProxyPool = NoPool
  /\ ClockInit
  /\ PagInit
  /\ LibInit

BatchNext ==
  \/ \E urls \in UrlLists : ScrapeBatch(urls)
  \/ \E url \in BatchUrls : \E outcome \in ScrapeSettlements(url) :
       BatchScrapeSettles(outcome)

BatchSpec == BatchInit /\ [][BatchNext]_vars

\* ---------------------------------------------------------------------
\* scraper.ts:189-210 the optional LLM step of scrape, after extract() and
\* the media steps
Given == {Undefined, "extracted"}
LlmGiven == {Undefined, "llm"}
\* metadata: null/undefined, or an object as its set of <<key, value>>
NoMetadata == [defined |-> FALSE, fields |-> {}]
Metadata(fields) == [defined |-> TRUE, fields |-> fields]
\* { ...a, ...b }
Spread(a, b) == {p \in a : \A q \in b : q[1] # p[1]} \cup b

Fields(title, author, publishDate, content, metadata) ==
  [title |-> title, author |-> author, publishDate |-> publishDate,
   content |-> content, metadata |-> metadata]
\* extractor.ts:39-43, 203-214 what extract() returned
Extracted ==
  {Fields(t, a, d, c, m) :
     t \in Given, a \in Given, d \in Given, c \in {"", "extracted"},
     m \in {NoMetadata, Metadata({<<"custom", "extracted">>})}}
LlmOptions ==
  {[llmExtract |-> e, llmEndpoint |-> p] :
     e \in BOOLEAN, p \in {Undefined, "http://localhost:11434"}}
\* llmExtractor.ts:44-61, 72-82 extractWithLlm resolves with what
\* normalizeLlmResult kept, or rejects (fetch failed, the timeout aborted it,
\* status not ok, no text, no JSON)
LlmOutcomes ==
  {[ok |-> TRUE, message |-> Undefined, result |-> Fields(t, a, d, c, m)] :
     t \in LlmGiven, a \in LlmGiven, d \in LlmGiven, c \in LlmGiven,
     m \in {NoMetadata, Metadata({<<"custom", "llm">>})}}
    \cup {[ok |-> FALSE, message |-> msg,
           result |-> Fields(Undefined, Undefined, Undefined, Undefined, NoMetadata)] :
            msg \in {"LLM extraction failed: fetch failed",
                     "LLM extraction failed: This operation was aborted"}}
NotCalled ==
  [ok |-> TRUE, message |-> "none",
   result |-> Fields(Undefined, Undefined, Undefined, Undefined, NoMetadata)]

\* scrape after extract(): options, the data extracted and where it stands
Scraping(scrapeOptions, data) ==
  [fn |-> "scrape", arg |-> [options |-> scrapeOptions, data |-> data], done |-> FALSE,
   out |-> [pc |-> "extracted", data |-> data, llm |-> NotCalled]]

\* scraper.ts:189-192, 210 with llmExtract and an endpoint, call
\* extractWithLlm and await it; otherwise return data
ScrapeExtracted ==
  /\ call.fn = "scrape"
  /\ call.out.pc = "extracted"
  /\ call' = IF call.arg.options.llmExtract = TRUE
                /\ call.arg.options.llmEndpoint # Undefined
             THEN [call EXCEPT !.out.pc = "awaiting extractWithLlm"]
             ELSE [call EXCEPT !.done = TRUE, !.out.pc = "returned"]
  /\ UNCHANGED batch
  /\ UNCHANGED <<jobVars, scrVars, clkVars, pagVars>>

\* scraper.ts:198-202 the fields the LLM gave replace the extracted ones
Merged(data, r) ==
  Fields(IF r.title # Undefined THEN r.title ELSE data.title,
         IF r.author # Undefined THEN r.author ELSE data.author,
         IF r.publishDate # Undefined THEN r.publishDate ELSE data.publishDate,
         IF r.content # Undefined THEN r.content ELSE data.content,
         IF r.metadata.defined
         THEN Metadata(Spread(data.metadata.fields, r.metadata.fields))
         ELSE data.metadata)
\* scraper.ts:203-207 the error's message goes to metadata.llmError
WithLlmError(data, message) ==
  [data EXCEPT !.metadata =
     Metadata(Spread(data.metadata.fields, {<<"llmError", message>>}))]

\* an LLM step whose catch rethrows
ExtractWithLlmSettles_Rethrows(outcome) ==
  /\ call.fn = "scrape"
  /\ call.out.pc = "awaiting extractWithLlm"
  /\ call' = IF outcome.ok
             THEN [call EXCEPT !.done = TRUE, !.out.pc = "returned",
                               !.out.llm = outcome,
                               !.out.data = Merged(@, outcome.result)]
             ELSE [call EXCEPT !.done = TRUE, !.out.pc = "threw",
                               !.out.llm = outcome]
  /\ UNCHANGED batch
  /\ UNCHANGED <<jobVars, scrVars, clkVars, pagVars>>

\* scraper.ts:192-210 the awaited extractWithLlm settles, and scrape
\* returns data
ExtractWithLlmSettles(outcome) ==
  /\ call.fn = "scrape"
  /\ call.out.pc = "awaiting extractWithLlm"
  /\ call' = IF outcome.ok
             THEN [call EXCEPT !.done = TRUE, !.out.pc = "returned",
                               !.out.llm = outcome,
                               !.out.data = Merged(@, outcome.result)]
             ELSE [call EXCEPT !.done = TRUE, !.out.pc = "returned",
                               !.out.llm = outcome,
                               !.out.data = WithLlmError(@, outcome.message)]
  /\ UNCHANGED batch
  /\ UNCHANGED <<jobVars, scrVars, clkVars, pagVars>>

LlmInit ==
  /\ JobInit
  /\ ScrInit(0, "scrape")
  /\ defaultProxyPool = NoPool
  /\ ClockInit
  /\ PagInit
  /\ batch = NoBatch
  /\ call \in {Scraping(o, d) : o \in LlmOptions, d \in Extracted}

LlmNext ==
  \/ ScrapeExtracted
  \/ \E outcome \in LlmOutcomes : ExtractWithLlmSettles(outcome)

LlmSpec == LlmInit /\ [][LlmNext]_vars

\* ---------------------------------------------------------------------
\* rateLimiter.ts:52-59 handleBackoff, called one call after the other as
\* the test does (part_004:49-51). call.out is the log of the sleeps that
\* ended and the time that has passed since the first call.
MaxBackoffs == 3
MaxAttempt == 7
BackoffArgs ==
  {[attempt |-> a, maxBackoff |-> m, baseDelay |-> b] :
     a \in 0..MaxAttempt, m \in {10000}, b \in {100, 1000}}
Min(a, b) == IF a <= b THEN a ELSE b

\* a delay that grows by baseDelay with each attempt
Delay_Linear(attempt, maxBackoff, baseDelay) ==
  Min(baseDelay * (attempt + 1), maxBackoff)

\* rateLimiter.ts:57 Math.min(baseDelay * Math.pow(2, attempt), maxBackoff)
Delay(attempt, maxBackoff, baseDelay) == Min(baseDelay * 2^attempt, maxBackoff)

NoSleeps == [log |-> <<>>, elapsed |-> 0]

\* rateLimiter.ts:52-58 handleBackoff(attempt, maxBackoff, baseDelay) sets
\* its timer
HandleBackoff(args) ==
  /\ call.fn = "handleBackoff"
  /\ call.done
  /\ Len(call.out.log) < MaxBackoffs
  /\ call' = [call EXCEPT !.arg = args, !.done = FALSE]
  /\ UNCHANGED batch
  /\ UNCHANGED <<jobVars, scrVars, clkVars, pagVars>>

\* rateLimiter.ts:46, 58 the timer fires, no earlier than asked, and the
\* awaited sleep resolves
BackoffSleepEnds(late) ==
  /\ call.fn = "handleBackoff"
  /\ ~call.done
  /\ LET delay == Delay(call.arg.attempt, call.arg.maxBackoff, call.arg.baseDelay)
     IN call' = [call EXCEPT !.done = TRUE,
                             !.out.log = Append(@, [args |-> call.arg, delay |-> delay]),
                             !.out.elapsed = @ + delay + late]
  /\ UNCHANGED batch
  /\ UNCHANGED <<jobVars, scrVars, clkVars, pagVars>>

BackoffInit ==
  /\ JobInit
  /\ ScrInit(0, "scrape")
  /\ defaultProxyPool = NoPool
  /\ ClockInit
  /\ PagInit
  /\ batch = NoBatch
  /\ call = [fn |-> "handleBackoff", arg |-> <<>>, done |-> TRUE, out |-> NoSleeps]

BackoffNext ==
  \/ \E args \in BackoffArgs : HandleBackoff(args)
  \/ \E late \in {0, 1} : BackoffSleepEnds(late)

BackoffSpec == BackoffInit /\ [][BackoffNext]_vars

\* ---------------------------------------------------------------------
\* extractor.ts:36-217 DataExtractor.extract. A document is its head and its
\* body, each a sequence of nodes; a node is a text node or an element with
\* one attribute (key, value) and its child nodes. A string is the sequence
\* of its tokens, html the sequence of nodes it serialises.
MaxBlocks == 2

TextNode(t) == [tag |-> "#text", key |-> "", value |-> t, kids |-> <<>>]
Element(tag, key, value, kids) == [tag |-> tag, key |-> key, value |-> value, kids |-> kids]
LongText == "This paragraph of the article runs to more than fifty characters."

\* String.length of a token
Length(t) ==
  CASE t = Blank -> 1
    [] t = LongText -> 65
    [] t = "Main Article" -> 12
    [] t = "This is the main content." -> 25
    [] t = "Navigation" -> 10
    [] t = "Buy now" -> 7
    [] t = "Hello" -> 5
    [] t = "var x = 1;" -> 10
    [] t = "OG Title" -> 8
    [] t = "Test Page" -> 9
    [] t = "Article Title" -> 13
    [] t = "Jane" -> 4
    [] t = "Joe" -> 3
    [] t = "2024-01-01" -> 10
    [] t = "article" -> 7
    [] t = "script" -> 6
    [] t = "span" -> 4
    [] t = "time" -> 4
    [] t = "nav" -> 3
    [] t = "div" -> 3
    [] t = "h1" -> 2
    [] t = "p" -> 1
    [] t = "class=ad" -> 10
    [] t = "class=author" -> 14
    [] t = "datetime" -> 11
    [] OTHER -> 0

RECURSIVE StringLength(_)
StringLength(str) ==
  IF Len(str) = 0 THEN 0 ELSE Length(Head(str)) + StringLength(Tail(str))

\* .text(): the text nodes below the nodes, in document order
RECURSIVE text(_)
text(nodes) ==
  IF Len(nodes) = 0 THEN <<>>
  ELSE (IF Head(nodes).tag = "#text" THEN <<Head(nodes).value>>
        ELSE text(Head(nodes).kids)) \o text(Tail(nodes))

\* the elements at and below the nodes, in document order
RECURSIVE elements(_)
elements(nodes) ==
  IF Len(nodes) = 0 THEN <<>>
  ELSE (IF Head(nodes).tag = "#text" THEN <<>>
        ELSE <<Head(nodes)>> \o elements(Head(nodes).kids)) \o elements(Tail(nodes))

\* the length of the nodes' serialisation: <tag key="value">kids</tag>
RECURSIVE htmlLength(_)
htmlLength(nodes) ==
  IF Len(nodes) = 0 THEN 0
  ELSE LET n == Head(nodes)
       IN (IF n.tag = "#text" THEN Length(n.value)
           ELSE 2 + Length(n.tag)
                + (IF n.key = "" THEN 0 ELSE 1 + Length(n.key) + Length(n.value))
                + htmlLength(n.kids) + 3 + Length(n.tag))
          + htmlLength(Tail(nodes))

\* html.trim(): white space at either end does not count
RECURSIVE trimHtml(_)
trimHtml(nodes) ==
  IF Len(nodes) = 0 THEN nodes
  ELSE IF Head(nodes) = TextNode(Blank) THEN trimHtml(Tail(nodes))
  ELSE IF nodes[Len(nodes)] = TextNode(Blank)
       THEN trimHtml(SubSeq(nodes, 1, Len(nodes) - 1))
  ELSE nodes

\* $('script, style, noscript').remove()
RECURSIVE removeScripts(_)
removeScripts(nodes) ==
  IF Len(nodes) = 0 THEN <<>>
  ELSE LET n == Head(nodes)
       IN (IF n.tag \in {"script", "style", "noscript"} THEN <<>>
           ELSE IF n.tag = "#text" THEN <<n>>
           ELSE <<[n EXCEPT !.kids = removeScripts(@)]>>)
          \o removeScripts(Tail(nodes))

\* a selector of a tag (or any, "*") and of an attribute (or none, "")
Selector(tag, key) == [tag |-> tag, key |-> key]
NoSelector == Selector("none", "none")
Matches(n, sel) ==
  /\ sel.tag \in {"*", n.tag}
  /\ sel.key \in {"", n.key}
\* $(selector) on the nodes
Query(nodes, sel) == SelectSeq(elements(nodes), LAMBDA n : Matches(n, sel))

\* a string that may be undefined
NoString == [defined |-> FALSE, text |-> <<>>]
String(str) == [defined |-> TRUE, text |-> str]
\* .attr(name) of the first match
Attr(matches) ==
  IF Len(matches) = 0 \/ matches[1].value = "" THEN <<>> ELSE <<matches[1].value>>
\* .first().text()
FirstText(matches) == IF Len(matches) = 0 THEN <<>> ELSE text(matches[1].kids)
\* a || b || ... || undefined: the first string that is not empty
RECURSIVE FirstTruthy(_)
FirstTruthy(steps) ==
  IF Len(steps) = 0 THEN NoString
  ELSE IF Len(Head(steps)) > 0 THEN String(Head(steps))
  ELSE FirstTruthy(Tail(steps))

\* extractor.ts:275-278
TitleSteps(root) ==
  <<Attr(Query(root, Selector("meta", "property=og:title"))),
    text(Query(root, Selector("title", ""))),
    FirstText(Query(root, Selector("h1", "")))>>
extractTitle(root) == FirstTruthy(TitleSteps(root))

\* extractor.ts:285-289
AuthorSteps(root) ==
  <<Attr(Query(root, Selector("meta", "name=author"))),
    Attr(Query(root, Selector("meta", "property=article:author"))),
    text(Query(root, Selector("*", "rel=author"))),
    FirstText(Query(root, Selector("*", "class=author")))>>
extractAuthor(root) == FirstTruthy(AuthorSteps(root))

\* extractor.ts:296-301
PublishDateSteps(root) ==
  <<Attr(Query(root, Selector("meta", "property=article:published_time"))),
    Attr(Query(root, Selector("time", "datetime"))),
    Attr(Query(root, Selector("time", ""))),
    text(Query(root, Selector("*", "class=published"))),
    FirstText(Query(root, Selector("*", "class=date")))>>
extractPublishDate(root) == FirstTruthy(PublishDateSteps(root))

\* extractor.ts:386-395 extractBySelector without an attribute
extractBySelector(root, sel) ==
  LET matches == Query(root, sel)
  IN IF Len(matches) = 0 THEN NoString
     ELSE IF Len(trim(text(matches[1].kids))) = 0 THEN NoString
     ELSE String(trim(text(matches[1].kids)))

\* extractor.ts:82-95
articleSelectors ==
  <<Selector("article", ""), Selector("*", "role=article"), Selector("main", ""),
    Selector("*", "role=main"), Selector("*", "class=article"),
    Selector("*", "class=post"), Selector("*", "class=content"),
    Selector("*", "class=entry-content"), Selector("*", "id=content"),
    Selector("*", "id=main"), Selector("*", "class=main-content"),
    Selector("*", "class=page-content")>>

\* extractor.ts:98-108 the html of the first selector's first element whose
\* trimmed text is longer than 50 characters
RECURSIVE FirstArea(_, _)
FirstArea(root, selectors) ==
  IF Len(selectors) = 0 THEN [found |-> FALSE, html |-> <<>>]
  ELSE LET matches == Query(root, Head(selectors))
       IN IF Len(matches) > 0 /\ StringLength(trim(text(matches[1].kids))) > 50
          THEN [found |-> TRUE, html |-> matches[1].kids]
          ELSE FirstArea(root, Tail(selectors))

\* .join('\n') of the children's html
RECURSIVE Join(_)
Join(htmls) ==
  IF Len(htmls) = 0 THEN <<>>
  ELSE IF Len(htmls) = 1 THEN htmls[1]
  ELSE htmls[1] \o <<TextNode(Blank)>> \o Join(Tail(htmls))
\* extractor.ts:116-122, 144-149 the inner html of each child element of
\* body, those that are blank left out
RECURSIVE ChildrenHtml(_)
ChildrenHtml(body) ==
  IF Len(body) = 0 THEN <<>>
  ELSE (IF Head(body).tag # "#text" /\ Len(trimHtml(Head(body).kids)) > 0
        THEN <<Head(body).kids>> ELSE <<>>) \o ChildrenHtml(Tail(body))

\* extractor.ts:112-134 body's children's html, or body's html, when body's
\* trimmed text is longer than 50 characters
BodyContent(body) ==
  IF StringLength(trim(text(body))) > 50
  THEN (IF Len(ChildrenHtml(body)) > 0 /\ Len(trimHtml(Join(ChildrenHtml(body)))) > 0
        THEN Join(ChildrenHtml(body)) ELSE body)
  ELSE <<>>

\* an extraction without the last resort
LastResort_None(extractedContent, body) == extractedContent

\* extractor.ts:139-160 still blank: body's children's html, or body's html
LastResort(extractedContent, body) ==
  IF Len(trimHtml(extractedContent)) = 0
  THEN (IF Len(ChildrenHtml(body)) > 0 THEN Join(ChildrenHtml(body)) ELSE body)
  ELSE extractedContent

\* extractor.ts:164-195 content is the html found, with its scripts taken out
\* when that leaves anything
Cleaned(extractedContent) ==
  IF Len(trimHtml(extractedContent)) > 0
  THEN (IF Len(trimHtml(removeScripts(extractedContent))) > 0
        THEN removeScripts(extractedContent) ELSE extractedContent)
  ELSE <<>>

\* extractor.ts:66-195 content selection
extractContent(schema, doc) ==
  LET root == doc.head \o doc.body
      matches == Query(root, schema.content)
      bySchema == IF schema.content = NoSelector \/ Len(matches) = 0 THEN <<>>
                  ELSE matches[1].kids
      fresh == removeScripts(doc.body)
      area == FirstArea(removeScripts(root), articleSelectors)
      default == IF Len(bySchema) = 0 \/ htmlLength(trimHtml(bySchema)) < 50
                 THEN (IF area.found THEN area.html ELSE BodyContent(fresh))
                 ELSE bySchema
  IN Cleaned(LastResort(default, fresh))

\* extractor.ts:36-64, 216 the data extract() returns
extract(schema, doc) ==
  LET root == doc.head \o doc.body
  IN [title |-> IF schema.title # NoSelector THEN extractBySelector(root, schema.title)
                ELSE extractTitle(root),
      author |-> IF schema.author # NoSelector THEN extractBySelector(root, schema.author)
                 ELSE extractAuthor(root),
      publishDate |-> IF schema.publishDate # NoSelector
                      THEN extractBySelector(root, schema.publishDate)
                      ELSE extractPublishDate(root),
      content |-> String(extractContent(schema, doc))]

\* the documents: heads for the field chains over a few bodies, and one
\* head over every body of up to MaxBlocks blocks
Meta(key, value) == Element("meta", key, value, <<>>)
Leaf(tag, t) == Element(tag, "", "", <<TextNode(t)>>)
Optional(nodes) == {<<>>} \cup {<<n>> : n \in nodes}
Heads ==
  {og \o title \o author \o date :
     og \in Optional({Meta("property=og:title", v) : v \in {Blank, "OG Title"}}),
     title \in Optional({Leaf("title", t) : t \in {Blank, "Test Page"}}),
     author \in Optional({Meta("name=author", v) : v \in {Blank, "Jane"}}),
     date \in Optional({Meta("property=article:published_time", "2024-01-01")})}
ShortArticle ==
  Element("article", "", "",
          <<Leaf("h1", "Main Article"), Leaf("p", "This is the main content.")>>)
LongArticle ==
  Element("article", "", "", <<Leaf("h1", "Main Article"), Leaf("p", LongText)>>)
Advertisement == Element("div", "class=ad", "", <<TextNode("Buy now")>>)
Blocks ==
  {ShortArticle, LongArticle,
   Leaf("nav", "Navigation"),
   Element("nav", "", "", <<LongArticle>>),
   Advertisement,
   Element("article", "", "", <<Leaf("p", LongText), Advertisement>>),
   Leaf("script", "var x = 1;"),
   Leaf("p", "Hello"),
   Element("div", "", "", <<>>),
   TextNode("Hello"),
   TextNode(Blank)}
Bylined ==
  <<Element("article", "", "",
            <<Leaf("h1", "Article Title"),
              Element("span", "class=author", "", <<TextNode("Joe")>>),
              Element("time", "datetime", "2024-01-01", <<>>)>>)>>
Documents ==
  {[head |-> h, body |-> b] : h \in Heads, b \in {Bylined, <<Leaf("p", "Hello")>>}}
    \cup {[head |-> <<Leaf("title", "Test Page")>>, body |-> b] :
            b \in UNION {[1..n -> Blocks] : n \in 0..MaxBlocks}}
Schemas ==
  {[title |-> t, author |-> NoSelector, publishDate |-> NoSelector, content |-> c] :
     t \in {NoSelector, Selector("h1", "")},
     c \in {NoSelector, Selector("article", ""), Selector("*", "id=missing")}}

\* extractor.ts:36 extract(html, url) runs
Extract ==
  /\ call.fn = "extract"
  /\ ~call.done
  /\ call' = [call EXCEPT !.done = TRUE,
                          !.out = extract(call.arg.schema, call.arg.doc)]
  /\ UNCHANGED batch
  /\ UNCHANGED <<jobVars, scrVars, clkVars, pagVars>>

ExtractInit ==
  /\ JobInit
  /\ ScrInit(0, "scrape")
  /\ defaultProxyPool = NoPool
  /\ ClockInit
  /\ PagInit
  /\ batch = NoBatch
  /\ call \in {Calling("extract", [schema |-> sc, doc |-> d]) :
                 sc \in Schemas, d \in Documents}

ExtractNext == Extract

ExtractSpec == ExtractInit /\ [][ExtractNext]_vars

\* schemaDetector.ts:17-75 detectSchemaFromHtml(html).schema: the tests are
\* made on the page as it was fetched, scripts included
EmptySchema ==
  [title |-> NoSelector, author |-> NoSelector, publishDate |-> NoSelector,
   content |-> NoSelector]
detectSchemaFromHtml(doc) ==
  LET all == elements(doc.head \o doc.body)
      Has(sel) == Len(SelectSeq(all, LAMBDA n : Matches(n, sel))) > 0
      HasValue(sel) == Len(SelectSeq(all, LAMBDA n : Matches(n, sel) /\ n.value # "")) > 0
      hasOgTitle == HasValue(Selector("meta", "property=og:title"))
      hasTitle ==
        Len(SelectSeq(all, LAMBDA n : /\ n.tag = "title"
                                      /\ Len(n.kids) = 1
                                      /\ n.kids[1].tag = "#text"
                                      /\ n.kids[1].value # "")) > 0
      hasH1 == Has(Selector("h1", ""))
      hasMetaAuthor == HasValue(Selector("meta", "name=author"))
      hasArticle == Has(Selector("article", ""))
      hasMain == Has(Selector("main", ""))
      hasContentClass == Has(Selector("*", "class=content"))
      hasEntryContent == Has(Selector("*", "class=entry-content"))
  IN [title |-> IF hasOgTitle THEN Selector("meta", "property=og:title")
                ELSE IF hasH1 THEN Selector("h1", "")
                ELSE IF hasTitle THEN Selector("title", "")
                ELSE NoSelector,
      author |-> IF hasMetaAuthor THEN Selector("meta", "name=author") ELSE NoSelector,
      publishDate |-> NoSelector,
      content |-> IF hasArticle THEN Selector("article", "")
                  ELSE IF hasMain THEN Selector("main", "")
                  ELSE IF hasEntryContent THEN Selector("*", "class=entry-content")
                  ELSE IF hasContentClass THEN Selector("*", "class=content")
                  ELSE NoSelector]

\* scraper.ts:160-164 the schema the extractor is built with
SchemaUsed(scrapeOptions, doc) ==
  IF scrapeOptions.autoDetectSchema THEN detectSchemaFromHtml(doc)
  ELSE scrapeOptions.extractionSchema

\* scraper.ts:160-172 scrape, with the page fetched: the schema is chosen
\* and extract() runs with it
ScrapeExtracts ==
  /\ call.fn = "scrape"
  /\ ~call.done
  /\ LET schema == SchemaUsed(call.arg.options, call.arg.doc)
     IN call' = [call EXCEPT !.done = TRUE,
                             !.out = [schema |-> schema,
                                      data |-> extract(schema, call.arg.doc)]]
  /\ UNCHANGED batch
  /\ UNCHANGED <<jobVars, scrVars, clkVars, pagVars>>

\* scrape on bounded documents, with and without a schema of the caller's and
\* with and without autoDetectSchema (no extractionSchema is the empty one)
SchemaInit ==
  /\ JobInit
  /\ ScrInit(0, "scrape")
  /\ defaultProxyPool = NoPool
  /\ ClockInit
  /\ PagInit
  /\ batch = NoBatch
  /\ call \in {Calling("scrape", [options |-> [extractionSchema |-> sc,
                                                autoDetectSchema |-> auto],
                                   doc |-> d]) :
                 sc \in Schemas, auto \in BOOLEAN, d \in Documents}

SchemaNext == ScrapeExtracts

SchemaSpec == SchemaInit /\ [][SchemaNext]_vars

CadenceNext ==
  \/ \E r \in Reqs : ExecuteAt(r)
  \/ \E r \in Reqs : WakeAt(r)
  \/ \E r \in Reqs, ok \in BOOLEAN : UnitSettlesAt(r, ok)
  \/ IntervalEnds
  \/ Tick

CadenceSpec == LimiterInit /\ [][CadenceNext]_vars

\* ----------------------------------------------------------- specification

Init ==
  /\ JobInit
  /\ ScrInit(0, "scrape")
  /\ defaultProxyPool = NoPool
  /\ ClockInit
  /\ PagInit
  /\ LibInit

Next ==
  \/ \E jobId \in JobIds, url \in Urls :
       PostCrawl(jobId, [url |-> StringUrl(url), options |-> NoOptions])
  \/ \E jobId \in JobIds, outcome \in ScrapeOutcomes : ScrapeSettles(jobId, outcome)
  \/ \E c \in Clients : Connect(c)
  \/ \E c \in Clients, jobId \in JobIds : Subscribe(c, jobId)
  \/ \E c \in Clients, jobId \in JobIds : Unsubscribe(c, jobId)
  \/ \E c \in Clients : BeginClose(c)
  \/ \E c \in Clients : Close(c)

Spec == Init /\ [][Next]_vars

\* The job service with every kind of request body: the url missing, a
\* number, the empty string or a url; options absent, naming a proxy that
\* does not parse, or holding another url
OtherUrl == "u2"
BodyUrls ==
  {UrlValue("undefined", Undefined), UrlValue("number", "42"), StringUrl("")}
    \cup {StringUrl(url) : url \in Urls}
BodyOptions ==
  {NoOptions, [NoOptions EXCEPT !.url = OtherUrl],
   [given |-> TRUE, list |-> <<EmptyString>>, url |-> Undefined],
   [given |-> TRUE, list |-> <<FtpString>>, url |-> Undefined]}
Bodies == {[url |-> url, options |-> o] : url \in BodyUrls, o \in BodyOptions}

ApiNext ==
  \/ \E jobId \in JobIds, body \in Bodies : PostCrawl(jobId, body)
  \/ \E jobId \in JobIds, outcome \in ScrapeOutcomes : ScrapeSettles(jobId, outcome)
  \/ \E c \in Clients : Connect(c)
  \/ \E c \in Clients, jobId \in JobIds : Subscribe(c, jobId)
  \/ \E c \in Clients, jobId \in JobIds : Unsubscribe(c, jobId)
  \/ \E c \in Clients : BeginClose(c)
  \/ \E c \in Clients : Close(c)

ApiSpec == Init /\ [][ApiNext]_vars

\* The job service with MaxSockets clients that send any message
MaxSockets == 2

RegistryInit ==
  /\ JobInitWith(MaxSockets)
  /\ ScrInit(0, "scrape")
  /\ defaultProxyPool = NoPool
  /\ ClockInit
  /\ PagInit
  /\ LibInit

RegistryNext ==
  \/ \E jobId \in JobIds, url \in Urls :
       PostCrawl(jobId, [url |-> StringUrl(url), options |-> NoOptions])
  \/ \E jobId \in JobIds, outcome \in ScrapeOutcomes : ScrapeSettles(jobId, outcome)
  \/ \E c \in Clients : Connect(c)
  \/ \E c \in Clients, msg \in ClientMessages : OnMessage(c, msg)
  \/ \E c \in Clients : BeginClose(c)
  \/ \E c \in Clients : Close(c)
  \/ CloseWebSocketServer

RegistrySpec == RegistryInit /\ [][RegistryNext]_vars

\* scraper.scrape() is assumed to settle: every suspended processJob is
\* eventually resumed (the process does not exit)
FairSpec == Spec /\ \A jobId \in JobIds :
                      WF_vars(\E outcome \in ScrapeOutcomes : ScrapeSettles(jobId, outcome))

\* -------------------------------------------------------------- properties

Terminal == {"completed", "failed"}
StatusOf(event) ==
  CASE event = "job:created" -> "pending"
    [] event = "job:processing" -> "processing"
    [] event = "job:completed" -> "completed"
    [] event = "job:failed" -> "failed"
Rank(event) ==
  CASE event = "job:created" -> 1
    [] event = "job:processing" -> 2
    [] OTHER -> 3

\* C1: every change of job.status is pending->processing, processing->completed
\* or processing->failed; a completed or failed status never changes again.
LegalChanges ==
  {<<"pending", "processing">>, <<"processing", "completed">>, <<"processing", "failed">>}
C1_StatusChangesLegal ==
  \A j \in JobIds :
    /\ Len(statusLog[j]) > 0 => statusLog[j][1] = "pending"
    /\ \A i \in 1..(Len(statusLog[j]) - 1) :
         statusLog[j][i] # statusLog[j][i + 1]
           => <<statusLog[j][i], statusLog[j][i + 1]>> \in LegalChanges

\* C2: per job id the broadcasts are job:created, job:processing, then exactly
\* one of job:completed / job:failed, each made exactly once and carrying the
\* status of its name; a settled job has had its terminal event sent; no
\* subscriber is sent a job's events in another order.
C2_EventSequence ==
  \A j \in JobIds :
    /\ Len(calls[j]) <= 3
    /\ \A i \in 1..Len(calls[j]) :
         /\ Rank(calls[j][i].event) = i
         /\ calls[j][i].status = StatusOf(calls[j][i].event)
         /\ calls[j][i].ok
    /\ (j \in DOMAIN jobs /\ jobs[j].status \in Terminal) => Len(calls[j]) = 3
    /\ \A c \in Clients : \A i \in 1..(Len(received[c][j]) - 1) :
         Rank(received[c][j][i].event) < Rank(received[c][j][i + 1].event)

\* C3: an error raised while a job is processed leaves the job failed, with
\* the message and a completion timestamp, and job:failed broadcast; no
\* rejection escapes unhandled.
C3_ErrorsBecomeFailed ==
  /\ unhandled = {}
  /\ \A j \in DOMAIN jobs :
       (j \notin awaiting /\ jobs[j].status # "completed")
         => /\ jobs[j].status = "failed"
            /\ jobs[j].error # Undefined
            /\ jobs[j].completedAt # Undefined
            /\ \E i \in 1..Len(calls[j]) :
                 calls[j][i].event = "job:failed" /\ calls[j][i].ok

\* C4: a job that is pending or processing eventually is completed or failed
\* (under FairSpec: scrape() settles).
C4_ReachesTerminal ==
  \A j \in JobIds :
    (j \in DOMAIN jobs /\ jobs[j].status \in {"pending", "processing"})
      ~> (j \in DOMAIN jobs /\ jobs[j].status \in Terminal)
C4_Witness ==
  \E j \in DOMAIN jobs :
    /\ statusLog[j][Len(statusLog[j]) - 1] = "processing"
    /\ jobs[j].status \in Terminal

\* C5: completed jobs have result and completedAt; failed jobs have error and
\* completedAt; pending and processing jobs have none of the three; no job has
\* both a result and an error.
C5_JobFields ==
  \A j \in DOMAIN jobs :
    LET job == jobs[j]
    IN /\ job.status = "completed"
            => job.result # Undefined /\ job.completedAt # Undefined
       /\ job.status = "failed"
            => job.error # Undefined /\ job.completedAt # Undefined
       /\ job.status \in {"pending", "processing"}
            => /\ job.result = Undefined
               /\ job.error = Undefined
               /\ job.completedAt = Undefined
       /\ ~(job.result # Undefined /\ job.error # Undefined)

\* ---- the orchestrator

\* the outcomes the retry loop is meant to absorb: status 403/429, or an
\* error whose message names a timeout
RetryableOutcome(o) ==
  \/ o.kind = "response" /\ o.status \in {403, 429}
  \/ o.kind = "error" /\ o.text = TimeoutText

\* C6: when every navigation attempt of a settled request ended in a
\* retryable outcome, the request failed with the single error that names
\* the attempt count; the last retryable outcome is never returned as a page.
C6_RetryableExhausted ==
  \A r \in Reqs :
    (/\ settled[r].done
     /\ Len(attempts[r]) > 0
     /\ \A i \in 1..Len(attempts[r]) : RetryableOutcome(attempts[r][i].outcome))
      => /\ ~settled[r].ok
         /\ settled[r].msg.text = "Failed to load"
         /\ settled[r].msg.attempts = Len(attempts[r])

\* C7: with N resolved proxies a request makes at most max(1, N) attempts,
\* attempt i (0-based) through proxy i of the resolved list (none when
\* N = 0), no proxy twice; every attempt but the last ended in a retryable
\* outcome, and a request whose last attempt ended in an error fails.
C7_ProxyRotation ==
  \A r \in Reqs :
    LET a == attempts[r]
        configs == req[r].proxyConfigs
        N == Len(configs)
    IN /\ Len(a) <= (IF N >= 1 THEN N ELSE 1)
       /\ \A i \in 1..Len(a) :
            /\ a[i].index = i - 1
            /\ a[i].proxy = (IF N = 0 THEN NoProxy ELSE configs[i])
            /\ \A k \in 1..Len(a) : k # i => (N > 0 => a[k].proxy # a[i].proxy)
       /\ \A i \in 1..(Len(a) - 1) : RetryableOutcome(a[i].outcome)
       /\ (settled[r].done /\ Len(a) > 0 /\ a[Len(a)].outcome.kind = "error")
            => ~settled[r].ok
C7_Witness ==
  \E r \in Reqs :
    /\ settled[r].done
    /\ Len(req[r].proxyConfigs) = 2
    /\ Len(attempts[r]) = 2
    /\ attempts[r][2].proxy = req[r].proxyConfigs[2]

\* C8: a request has at most one browser context open at any time, and none
\* once scrape() has settled.
C8_ContextsClosed ==
  \A r \in Reqs :
    /\ Cardinality(contexts[r]) <= 1
    /\ settled[r].done => contexts[r] = {}
C8_Witness ==
  \E r \in Reqs :
    /\ settled[r].done
    /\ settled[r].ok
    /\ Len(attempts[r]) = 2
    /\ contexts[r] = {}

\* C9: every error scrape() rejects with names the url of the request.
C9_ErrorsNameUrl ==
  \A r \in Reqs :
    (settled[r].done /\ ~settled[r].ok) => settled[r].msg.url = req[r].url

\* ---- the limiter

\* the units execute() has started and that have not finished
Running == {r \in Reqs : req[r].pc \in {"sleep", "running"}}

\* C10: at most maxConcurrency units are running at any time.
C10_ConcurrencyCap == Cardinality(Running) <= maxConcurrency
C10_Witness ==
  /\ Cardinality({r \in Reqs : req[r].pc # "new"}) > maxConcurrency
  /\ Cardinality(Running) = maxConcurrency
  /\ Len(queue) > 0
  /\ intervalCount < maxRequestsPerSecond
  /\ \E r \in Reqs : settled[r].done

\* C11: the start times of any two successively invoked units differ by at
\* least 1000/R ms (so k units submitted together spread over at least
\* (k-1)*(1000/R) ms), whatever maxConcurrency is
C11_CadenceKept ==
  \A k \in 2..Len(invoked) : invoked[k].at - invoked[k - 1].at >= minDelay

\* scraper.ts:137 'urls.length > 1' is never true in scrape
GotoNeverAwaited == pag.pc # "goto" /\ ~ENABLED GotoSettles

\* C14: with a visited set holding only the origin url and maxDepth >= 1,
\* handlePagination returns a list of length >= 1 whose first element is the
\* origin url
C14_OriginFirst ==
  (/\ pag.pc \in {"returned", "extract", "goto"}
   /\ pag.visited0 = {pag.url}
   /\ DepthOf(pag.maxDepth) >= 1)
    => (Len(pag.urls) >= 1 /\ pag.urls[1] = pag.url)

\* C15: a crawl with maxDepth >= 2 whose origin has a next link to another,
\* unvisited url visits the successor, and the markup passed to extraction is
\* the origin's markup followed by each successor's in visit order
C15_PagesMerged ==
  (/\ pag.pc = "extract"
   /\ pag.caller = "scrape"
   /\ pag.resolver # "paginationCallback"
   /\ pag.maxDepth.given /\ pag.maxDepth.value >= 2
   /\ NextLink(pag.url) # Null)
    => (/\ Len(pag.urls) >= 2
        /\ pag.urls[1] = pag.url
        /\ pag.urls[2] = NextLink(pag.url)
        /\ pag.html = mergeHtml([k \in 1..Len(pag.urls) |-> Markup(pag.urls[k])]))

\* C16: over the chain p1 -> p2 -> p3, a traversal from p1 with maxDepth 10
\* returns exactly p1, p2, p3; with maxDepth 1 it returns exactly p1,
\* whatever the resolver answers
C16_ChainTraversed ==
  (/\ pag.pc = "returned"
   /\ pag.visited0 = {}
   /\ pag.url = "p1")
    => (/\ (pag.maxDepth = [given |-> TRUE, value |-> 10]
            /\ pag.resolver # "paginationCallback")
              => pag.urls = <<"p1", "p2", "p3">>
        /\ pag.maxDepth = [given |-> TRUE, value |-> 1] => pag.urls = <<"p1">>)

Waiting == {"new", "queued"}

\* C12: units leave the limiter's queue in submission order: a unit
\* submitted after another is never released before it
C12_FifoRelease ==
  \A a, b \in Reqs : (a < b /\ req[a].pc = "queued") => req[b].pc \in Waiting
\* a unit was released while another waited behind it, and that one has been
\* released in its turn
C12_Witness ==
  \E a, b \in Reqs :
    /\ a < b
    /\ Len(req[a].behind) > 0 /\ b = req[a].behind[1]
    /\ req[a].pc \notin Waiting /\ req[b].pc \notin Waiting

\* C13: execute() settles as its unit does (the same error, the same value),
\* a unit that throws gives its slot back, and the units queued behind it
\* are still started
C13_ErrorPropagates ==
  /\ \A r \in Reqs :
       settled[r].done =>
         /\ req[r].pc = "done"
         /\ settled[r].ok = req[r].hold.ok
         /\ settled[r].status = req[r].hold.status
         /\ settled[r].msg = req[r].hold.msg
         /\ settled[r].ok => settled[r].status = r
         /\ ~settled[r].ok => settled[r].msg.text = UnitErrorText
  /\ pendingCount = Cardinality(Running)
  /\ Len(queue) > 0 => (pendingCount = maxConcurrency
                         \/ intervalCount = maxRequestsPerSecond)
\* a unit threw while others waited behind it, and the first of them ran
C13_Witness ==
  \E a, b \in Reqs :
    /\ settled[a].done /\ ~settled[a].ok
    /\ Len(req[a].behind) > 0 /\ b = req[a].behind[1]
    /\ req[b].pc \in {"running", "done"}
    /\ pendingCount < maxConcurrency

Pool == defaultProxyPool
\* the calls made on the pool before its first reset
Fresh(k) == \A j \in 1..k : Pool.log[j].op = "getNext"
ConfigAt(k) == Pool.configs[((k - 1) % size(Pool)) + 1]

\* C17: on a fresh pool of N proxies the k-th getNext() returns the proxy at
\* position (k-1) mod N: the first N draws return each proxy once in input
\* order and the (N+1)-th returns the first again
C17_RoundRobin ==
  /\ \A k \in 1..Len(Pool.log) : Fresh(k) => Pool.log[k].config = ConfigAt(k)
  /\ \A i, j \in 1..Len(Pool.log) :
       (Fresh(i) /\ Fresh(j) /\ i < j /\ j <= size(Pool))
         => Pool.log[i].config # Pool.log[j].config
\* a fresh pool of at least two proxies has been drawn from more than N times
C17_Witness ==
  /\ size(Pool) >= 2
  /\ Len(Pool.log) > size(Pool)
  /\ Fresh(size(Pool) + 1)
  /\ Pool.log[size(Pool) + 1].config = Pool.configs[1]

\* C18: the getNext() that follows a reset() returns the first configured
\* proxy, whatever was drawn before; reset() changes nothing but the cursor
\* and a second reset() changes nothing
C18_ResetRewinds ==
  /\ \A k \in 1..(Len(Pool.log) - 1) :
       (Pool.log[k].op = "reset" /\ Pool.log[k + 1].op = "getNext")
         => Pool.log[k + 1].config = Pool.configs[1]
  /\ size(Pool) > 0 =>
       /\ getNext(reset(Pool)).config = Pool.configs[1]
       /\ reset(Pool).configs = Pool.configs
       /\ reset(reset(Pool)).index = reset(Pool).index
       /\ reset(reset(Pool)).configs = reset(Pool).configs
\* a pool was reset in the middle of a rotation and drawn from again
C18_Witness ==
  \E k \in 1..(Len(Pool.log) - 1) :
    /\ Pool.log[k].op = "reset"
    /\ Pool.log[k].cursor % size(Pool) # 0
    /\ Pool.log[k + 1].op = "getNext"

\* the requests whose proxy list was drawn from the default pool
FromPool ==
  {r \in Reqs : /\ ~req[r].proxy.given
                /\ Pool # NoPool
                /\ req[r].pc \notin {"new", "launch", "queued", "sleep"}}

\* C19: the draws of concurrent requests on the shared pool are those of one
\* wrapping counter: the k-th draw reads cursor k-1, no cursor is read twice,
\* and each request's list is an unbroken run of draws
C19_DrawsAtomic ==
  Pool # NoPool =>
    /\ Pool.index = Len(Pool.log)
    /\ \A k \in 1..Len(Pool.log) :
         /\ Pool.log[k].op = "getNext"
         /\ Pool.log[k].cursor = k - 1
         /\ Pool.log[k].config = ConfigAt(k)
    /\ Len(Pool.log) = size(Pool) * Cardinality(FromPool)
    /\ \A r \in FromPool :
         \E start \in 0..(Len(Pool.log) - size(Pool)) :
           req[r].proxyConfigs = [i \in 1..size(Pool) |-> Pool.log[start + i].config]
\* two requests that are both navigating have drawn from the pool
C19_Witness ==
  /\ size(Pool) >= 2
  /\ Cardinality(FromPool) >= 2
  /\ \A r \in FromPool : req[r].pc = "nav"

\* C20: with a default pool and no override, the list resolved for a
\* request is the configured list in input order, so its first attempt uses
\* the first configured proxy, whatever earlier requests did
C20_StartsAtFirst ==
  \A r \in FromPool :
    /\ req[r].proxyConfigs = Pool.configs
    /\ Len(attempts[r]) > 0 => attempts[r][1].proxy = Pool.configs[1]
\* a request resolved its list after another one had gone on to its second
\* proxy
C20_Witness ==
  \E a, b \in FromPool :
    /\ a # b
    /\ size(Pool) >= 2
    /\ Len(attempts[a]) >= 2
    /\ Len(attempts[b]) = 1
    /\ Pool.log[Len(Pool.log)].config = req[b].proxyConfigs[size(Pool)]
    /\ req[a].pc = "nav" /\ req[b].pc = "nav"

AllBlank(s) == \A k \in 1..Len(s) : s[k] = Blank
FirstToken(s) == s[CHOOSE k \in 1..Len(s) : s[k] # Blank /\ \A j \in 1..(k - 1) : s[j] = Blank]
\* empty, blank, or with a scheme other than http, https, socks5
Refused(s) == AllBlank(s) \/ FirstToken(s) \in Schemes \ {"http://", "https://", "socks5://"}

\* C21: parsing an empty or blank proxy string, or one whose scheme is not
\* http, https or socks5, throws and yields no config; constructing a pool
\* from an empty list, or from a list with such an entry, throws and yields
\* no pool
C21_BadProxyRefused ==
  /\ (call.fn = "parseProxyString" /\ call.done /\ Refused(call.arg))
       => (call.out.threw /\ call.out.value = NoProxy)
  /\ (call.fn = "parseProxyString" /\ call.done /\ ~call.out.threw)
       => call.out.value.server[1] \in {"http", "https", "socks5"}
  /\ (call.fn = "ProxyPool" /\ call.done
        /\ (Len(call.arg) = 0 \/ \E i \in 1..Len(call.arg) : Refused(call.arg[i])))
       => (call.out.threw /\ call.out.pool = NoPool)
\* a pool was asked for a list whose second entry names a scheme that is not
\* taken, after a first entry that parses
C21_Witness ==
  /\ call.fn = "ProxyPool" /\ call.done
  /\ Len(call.arg) = 2
  /\ ~Refused(call.arg[1])
  /\ call.arg[2] = FtpString
  /\ call.out.threw

\* C22: a request with a proxy string that does not parse is refused at
\* submission: no job exists for it (and none is moved to processing)
C22_InputErrorsFailFast ==
  \A j \in DOMAIN jobs :
    options[j].given => ~normalizeProxyInput(options[j].list).threw

\* C23: an event of job J is sent only to clients that are in J's subscriber
\* set and open when it is emitted, and every payload a client got for J is
\* an event of J
C23_OnlySubscribers ==
  /\ [](\A c \in Clients, j \in JobIds :
          \A k \in 1..Len(received[c][j]) : received[c][j][k].jobId = j)
  /\ [][\A c \in Clients, j \in JobIds :
          received'[c][j] # received[c][j]
            => (c \in jobSubscriptions[j] /\ readyState[c] = "OPEN")]_vars
\* a client got an event of one job and none of another job whose events
\* were emitted too
C23_Witness ==
  \E c \in Clients, j, k \in JobIds :
    /\ j # k
    /\ Len(received[c][j]) > 0
    /\ received[c][k] = <<>>
    /\ Len(calls[k]) >= 3

\* C24: a client whose connection has closed is in no subscriber set and not
\* among the connected clients, and nothing is sent to it any more
C24_ClosedClientGone ==
  /\ [](\A c \in Clients :
          readyState[c] = "CLOSED"
            => (c \notin allClients /\ \A j \in JobIds : c \notin jobSubscriptions[j]))
  /\ [][\A c \in Clients :
          readyState[c] = "CLOSED" => received'[c] = received[c]]_vars
\* a client that had got an event of a job closed, and a later event of that
\* job was emitted
C24_Witness ==
  \E c \in Clients, j \in JobIds :
    /\ readyState[c] = "CLOSED"
    /\ Len(received[c][j]) > 0
    /\ Len(calls[j]) > Len(received[c][j])
    /\ calls[j][Len(calls[j])].ok

\* what POST /crawl answers and does, but for which urls it answers 400
PostCrawlAnswers ==
  /\ [](/\ invalid.response # NoResponse
            => invalid.response = Response(400, Undefined, Undefined, Undefined,
                                           "URL is required")
        /\ \A j \in JobIds :
             /\ j \in DOMAIN jobs <=> responses[j] # NoResponse
             /\ j \in DOMAIN jobs
                  => /\ jobs[j].id = j
                     /\ jobs[j].url \in Urls
                     /\ responses[j] = Response(200, j, "pending", jobs[j].url, Undefined))
  /\ [][/\ invalid' # invalid
             => UNCHANGED <<jobs, awaiting, statusLog, calls, received, responses>>
        /\ \A j \in JobIds :
             responses'[j] # responses[j]
               => /\ j \notin DOMAIN jobs
                  /\ DOMAIN jobs' = DOMAIN jobs \cup {j}
                  /\ \A k \in DOMAIN jobs : jobs'[k] = jobs[k]]_vars

\* C25 as stated: 400 for a url that is missing or not a string, and for no
\* other; every string url creates a job
C25_StringUrlCreatesJob ==
  invalid.response # NoResponse => invalid.body.url.type # "string"

\* C25: a url that is missing, not a string or the empty string is answered
\* 400 with an error body and changes nothing; a non-empty string url
\* creates exactly one job, under an id no job has, and is answered with
\* that id, status pending and the url
C25_PostCrawlContract ==
  /\ PostCrawlAnswers
  /\ [](invalid.response # NoResponse
          => (invalid.body.url.type # "string" \/ invalid.body.url.value = ""))
\* a request with the empty string as url was answered 400, and another
\* request has created a job
C25_Witness ==
  /\ invalid.response.status = 400
  /\ invalid.body.url = StringUrl("")
  /\ \E j \in DOMAIN jobs : responses[j].status = 200

\* C26: scrapeBatch returns one result per url, in input order, result i
\* carrying url i; a failed scrape becomes a placeholder with empty content
\* and the error message and the batch goes on; the scrape of a url starts
\* only after the scrape of the url before it has settled
C26_BatchInOrder ==
  /\ batch.pc \in {"idle", "awaiting scrape", "returned"}
  /\ batch.pc = "returned"
       => (Len(batch.results) = Len(batch.urls) /\ batch.started = batch.urls)
  /\ Len(batch.results) = Len(batch.settled)
  /\ Len(batch.started) <= Len(batch.settled) + 1
  /\ batch.started = SubSeq(batch.urls, 1, Len(batch.started))
  /\ \A k \in 1..Len(batch.results) :
       /\ batch.results[k].url = batch.urls[k]
       /\ batch.settled[k].ok => batch.results[k] = batch.settled[k].data
       /\ ~batch.settled[k].ok
            => batch.results[k] = Scraped(batch.urls[k], "", batch.settled[k].message)
\* a batch has returned in which the first scrape failed and a later one
\* succeeded
C26_Witness ==
  /\ batch.pc = "returned"
  /\ Len(batch.urls) = MaxBatch
  /\ ~batch.settled[1].ok
  /\ batch.settled[2].ok
  /\ batch.urls[1] # batch.urls[2]

\* C27: when extractWithLlm rejects, scrape still returns: title, author,
\* publish date and content are the extracted ones and metadata.llmError is
\* the error's message; scrape never throws because of the LLM step
C27_LlmFailureSoft ==
  call.fn = "scrape"
    => /\ call.out.pc \in {"extracted", "awaiting extractWithLlm", "returned"}
       /\ (call.out.pc = "returned" /\ ~call.out.llm.ok)
            => /\ call.out.data.title = call.arg.data.title
               /\ call.out.data.author = call.arg.data.author
               /\ call.out.data.publishDate = call.arg.data.publishDate
               /\ call.out.data.content = call.arg.data.content
               /\ call.out.data.metadata.defined
               /\ <<"llmError", call.out.llm.message>> \in call.out.data.metadata.fields
\* scrape returned after its LLM call was aborted, the data having had no
\* metadata
C27_Witness ==
  /\ call.fn = "scrape"
  /\ call.out.pc = "returned"
  /\ call.out.llm.message = "LLM extraction failed: This operation was aborted"
  /\ ~call.arg.data.metadata.defined
  /\ call.arg.data.title = "extracted"

\* the elements extraction is to strip: nav, header and footer without an
\* article or main region inside, and the advertisement selectors
HasRegion(n) ==
  \E k \in 1..Len(elements(n.kids)) :
    \/ elements(n.kids)[k].tag \in {"article", "main"}
    \/ elements(n.kids)[k].key \in {"role=main", "role=article"}
Noise(n) ==
  \/ n.tag \in {"nav", "header", "footer"} /\ ~HasRegion(n)
  \/ n.key \in {"class=ad", "class=ads", "class=advertisement"}
Contains(html, t) == \E k \in 1..Len(text(html)) : text(html)[k] = t

\* C28: the content extracted holds no text of a nav, header or footer
\* element without an article or main region inside, and none of an
\* advertisement element
C28_NoiseStripped ==
  (call.fn = "extract" /\ call.done)
    => \A k \in 1..Len(elements(call.arg.doc.body)) :
         LET n == elements(call.arg.doc.body)[k]
         IN Noise(n)
              => \A i \in 1..Len(text(n.kids)) :
                   text(n.kids)[i] = Blank
                     \/ ~Contains(call.out.content.text, text(n.kids)[i])

\* the first step of a chain whose text is not blank
RECURSIVE FirstNonBlank(_)
FirstNonBlank(steps) ==
  IF Len(steps) = 0 THEN NoString
  ELSE IF Len(trim(Head(steps))) > 0 THEN String(Head(steps))
  ELSE FirstNonBlank(Tail(steps))

\* C29: without a schema selector, title, author and publish date are each
\* the first step of their chain that yields non-blank text, and undefined
\* when every step misses
C29_FirstNonBlankWins ==
  (call.fn = "extract" /\ call.done)
    => LET root == call.arg.doc.head \o call.arg.doc.body
       IN /\ call.arg.schema.title = NoSelector
               => call.out.title = FirstNonBlank(TitleSteps(root))
          /\ call.out.author = FirstNonBlank(AuthorSteps(root))
          /\ call.out.publishDate = FirstNonBlank(PublishDateSteps(root))

\* C30: content is always a string, and it is not empty when the body holds
\* any text that is not white space, scripts aside
C30_ContentNeverLost ==
  (call.fn = "extract" /\ call.done)
    => /\ call.out.content.defined
       /\ Len(trim(text(removeScripts(call.arg.doc.body)))) > 0
            => Len(call.out.content.text) > 0
\* content came from the last resort: a body whose text is no longer than 50
\* characters, no schema selector
C30_Witness ==
  /\ call.fn = "extract"
  /\ call.done
  /\ call.arg.schema.content = NoSelector
  /\ call.arg.doc.body = <<TextNode("Hello"), Leaf("p", "Hello")>>
  /\ Len(call.out.content.text) > 0

\* C31: every browser a scrape() call launched is the one the orchestrator
\* holds, so at most one browser was launched and none is left unreferenced
C31_OneBrowser ==
  \A r \in DOMAIN req : req[r].launched => browser = ToString(r)

\* the sum of the delays logged
RECURSIVE Slept(_)
Slept(log) == IF Len(log) = 0 THEN 0 ELSE Head(log).delay + Slept(Tail(log))

\* C32: every sleep of handleBackoff is baseDelay at attempt 0, twice the
\* sleep of the attempt before it or the cap if that is less, and never more
\* than the cap; the calls take at least the sum of their delays, which for
\* attempts 0, 1, 2 with base 100 and cap 10000 is 700 ms
C32_BackoffDoubles ==
  call.fn = "handleBackoff"
    => /\ \A k \in 1..Len(call.out.log) :
            LET e == call.out.log[k]
            IN /\ e.delay <= e.args.maxBackoff
               /\ e.args.attempt = 0 => e.delay = Min(e.args.baseDelay, e.args.maxBackoff)
               /\ \A i \in 1..Len(call.out.log) :
                    LET f == call.out.log[i]
                    IN (/\ f.args.attempt = e.args.attempt + 1
                        /\ f.args.baseDelay = e.args.baseDelay
                        /\ f.args.maxBackoff = e.args.maxBackoff)
                         => f.delay = Min(2 * e.delay, e.args.maxBackoff)
       /\ call.out.elapsed >= Slept(call.out.log)
       /\ (/\ Len(call.out.log) = 3
           /\ \A k \in 1..3 :
                call.out.log[k].args =
                  [attempt |-> k - 1, maxBackoff |-> 10000, baseDelay |-> 100])
            => (Slept(call.out.log) = 700 /\ call.out.elapsed >= 700)
\* the three calls of the test have slept, and a capped sleep is in reach
C32_Witness ==
  /\ call.fn = "handleBackoff"
  /\ call.done
  /\ Len(call.out.log) = 3
  /\ \A k \in 1..3 :
       call.out.log[k].args = [attempt |-> k - 1, maxBackoff |-> 10000, baseDelay |-> 100]

Ended == {"returned", "extract", "goto"}
Last(seq) == seq[Len(seq)]

\* C33: handlePagination ends whatever the resolver answers; its result
\* holds no url twice and at most maxDepth urls; while a resolution is
\* awaited fewer than maxDepth iterations have completed and the url being
\* visited is already the last of the result
C33_TraversalBounded ==
  /\ [](/\ \A i, k \in 1..Len(pag.urls) : pag.urls[i] = pag.urls[k] => i = k
        /\ Len(pag.urls) <= Max(DepthOf(pag.maxDepth), 0)
        /\ pag.pc = "find"
             => /\ pag.depth < DepthOf(pag.maxDepth)
                /\ Len(pag.urls) = pag.depth + 1
                /\ Last(pag.urls) = pag.currentUrl
                /\ pag.currentUrl \in pag.visitedUrls)
  /\ (pag.pc = "find") ~> (pag.pc \in Ended)
\* a traversal under a callback that answered a url already visited has
\* ended with both urls, short of its depth limit
C33_Witness ==
  /\ pag.pc = "returned"
  /\ pag.resolver = "paginationCallback"
  /\ DepthOf(pag.maxDepth) = 10
  /\ pag.urls = <<"p2", "p1">>
  /\ pag.answers = <<"p1", "p2">>

C35_CallbackOverrides ==
  /\ [](pag.resolver = "paginationCallback"
          => (pag.queried = {} /\ pag.answers = pag.returns))
  /\ [][(pag.pc = "find" /\ pag.resolver = "paginationCallback"
         /\ pag'.returns # pag.returns)
          => /\ Last(pag'.returns) = Null => (pag'.pc \in Ended /\ pag'.urls = pag.urls)
             /\ pag'.pc = "find" => pag'.currentUrl = Last(pag'.returns)]_vars
\* a callback sent the traversal from p1, which links to p2, to p3 and then
\* ended it with null
C35_Witness ==
  /\ pag.pc = "returned"
  /\ pag.resolver = "paginationCallback"
  /\ pag.url = "p1"
  /\ pag.returns = <<"p3", Null>>
  /\ pag.urls = <<"p1", "p3">>

\* C36: a unit given to execute() is invoked in the end, provided the units
\* admitted before it settle; it is invoked once, and only out of the queue
\* or its cadence sleep
C36_OnlyDefers ==
  /\ \A r \in 1..MaxUnits :
       (req[r].pc \in {"queued", "sleep"}) ~> (req[r].pc = "running")
  /\ [][\A r \in Reqs :
          /\ (req'[r].pc = "running" /\ req[r].pc # "running")
               => (req[r].pc \in {"new", "queued", "sleep"} /\ ~settled[r].done)
          /\ req[r].pc = "done" => req'[r].pc = "done"]_vars
\* a unit that waited in the queue behind a failed unit has been invoked and
\* has settled
C36_Witness ==
  \E a, b \in Reqs :
    /\ a # b
    /\ settled[a].done /\ ~settled[a].ok
    /\ \E k \in 1..Len(req[a].behind) : req[a].behind[k] = b
    /\ settled[b].done

Subscription(jobId) == ClientMessage(TRUE, "subscribe", jobId)
Unsubscription(jobId) == ClientMessage(TRUE, "unsubscribe", jobId)
Ignored ==
  {msg \in ClientMessages :
     ~msg.json \/ ~HasJobId(msg) \/ msg.type \notin {"subscribe", "unsubscribe"}}

\* the steps the handlers of one socket make in the registry
SocketStep ==
  \/ \E c \in Clients : Close(c)
  \/ \E c \in Clients, j \in JobIds :
       OnMessage(c, Subscription(j)) \/ OnMessage(c, Unsubscription(j))

\* the registry changes only in a subscribe, an unsubscribe or a close
C37_ThreeMutators == [][jobSubscriptions' # jobSubscriptions => SocketStep]_vars

\* C37: the registry changes only in a subscribe, an unsubscribe, a close or
\* the closing of the server, which empties it; an unsubscribe of client c
\* for job J takes c out of J's set and nothing else; text that is no JSON, a
\* message without a job id and a message of another type leave the registry
\* as it is and no message changes a job record; a broadcast changes neither
\* the registry nor the job record it is given
C37_RegistryFrame ==
  /\ [](/\ \A c \in Clients, j \in JobIds :
             LET after == onMessage(jobSubscriptions, c, Unsubscription(j))
             IN /\ after[j] = jobSubscriptions[j] \ {c}
                /\ \A k \in JobIds \ {j} : after[k] = jobSubscriptions[k]
        /\ \A c \in Clients, msg \in Ignored :
             onMessage(jobSubscriptions, c, msg) = jobSubscriptions
        /\ \A j \in DOMAIN jobs :
             \A event \in {"job:created", "job:processing", "job:completed", "job:failed"} :
                broadcastJobEvent(World(jobs[j], j), event, j).job = jobs[j])
  /\ [][/\ jobSubscriptions' # jobSubscriptions
             => \/ SocketStep
                \/ CloseWebSocketServer /\ \A j \in JobIds : jobSubscriptions'[j] = {}
        /\ calls' # calls => jobSubscriptions' = jobSubscriptions
        /\ (\E c \in Clients, msg \in ClientMessages : OnMessage(c, msg))
             => jobs' = jobs]_vars
\* an open client that got an event of one job is no longer in that job's
\* set, is still in the other job's set, and the other client is still in
\* both
C37_Witness ==
  \E c, d \in Clients, j, k \in JobIds :
    /\ c # d /\ j # k
    /\ readyState[c] = "OPEN"
    /\ Len(received[c][j]) > 0
    /\ c \notin jobSubscriptions[j]
    /\ c \in jobSubscriptions[k]
    /\ d \in jobSubscriptions[j] /\ d \in jobSubscriptions[k]

TerminalEvents == {"job:completed", "job:failed"}
Events(log) == {log[k].event : k \in 1..Len(log)}
Answered(jobId) == responses[jobId].status = 200

\* C38: when the response with the job id is sent, job:created and
\* job:processing have been emitted in that order and the stored status is
\* processing; from then on a status query is never answered pending, and
\* a client gets of that job at most one more event, a terminal one
C38_StartedBeforeResponse ==
  /\ [](\A j \in JobIds :
          Answered(j) =>
            /\ Len(calls[j]) >= 2
            /\ calls[j][1].event = "job:created" /\ calls[j][1].ok
            /\ calls[j][2].event = "job:processing" /\ calls[j][2].ok
            /\ GetStatus(j).status = 200
            /\ GetStatus(j).jobStatus # "pending")
  /\ [][\A j \in JobIds :
          /\ ~Answered(j) /\ Answered(j)' => jobs'[j].status = "processing"
          /\ Answered(j) =>
               \A c \in Clients :
                 \/ received'[c][j] = received[c][j]
                 \/ /\ Len(received'[c][j]) = Len(received[c][j]) + 1
                    /\ SubSeq(received'[c][j], 1, Len(received[c][j])) = received[c][j]
                    /\ Last(received'[c][j]).event \in TerminalEvents
                    /\ Events(received[c][j]) \cap TerminalEvents = {}]_vars
\* a job has been answered and has ended, and an open client has got its
\* terminal event and nothing else of it
C38_Witness ==
  \E c \in Clients, j \in JobIds :
    /\ Answered(j)
    /\ readyState[c] = "OPEN"
    /\ Len(calls[j]) >= 3
    /\ Len(received[c][j]) = 1
    /\ received[c][j][1].event \in TerminalEvents

\* C39: the url scraper.scrape is called with for a job is the url recorded
\* on the job
C39_CrawlsJobUrl ==
  \A j \in DOMAIN jobs : Answered(j) => options[j].url = jobs[j].url

\* C40: with a schema of the caller's and autoDetectSchema both given, the
\* extractor is built with the caller's schema
C40_ExplicitSchemaFirst ==
  (/\ call.fn = "scrape" /\ call.done
   /\ call.arg.options.extractionSchema # EmptySchema
   /\ call.arg.options.autoDetectSchema)
    => call.out.schema = call.arg.options.extractionSchema
====
